---- MODULE Spec2Model ----
(***************************************************************************)
(* A model of the dpll command line tool (src/dpll/dpll.c, the libmnl      *)
(* implementation in lines 1-2016): the token cursor, the dispatcher, the  *)
(* argument loop of every verb, main's transport handling, the monitor     *)
(* loop with its signal handler, and the two-pass multi-attribute          *)
(* collection of the pin message handlers.                                 *)
(***************************************************************************)
EXTENDS Integers, Sequences, FiniteSets, TLC

VARIABLES
    argv0,          \* the argument vector left after getopt (argv + optind)
    opt,            \* what getopt_long found: "none" (not parsed yet), "run", "V", "bad"
    pc,             \* position of the process in main / dpll_cmd / the verb
    dpll,           \* struct dpll: [argc, argv, json_output]
    need_nl,        \* main's need_nl
    nl_open,        \* mnlu_gen_socket_open succeeded and the socket is not closed
    init_calls,     \* number of calls of dpll_init
    bad_use,        \* a transport operation was made on a socket never opened
    nlh,            \* the request under construction: [cmd, dump, attrs, open]
    has_id,         \* has_id / has_pin_id of the running verb
    has_device_id,  \* has_device_id of cmd_pin_show
    id,             \* id / pin_id of the running verb
    device_id,      \* device_id of cmd_pin_show
    err,            \* value returned by dpll_cmd (0 or negative)
    why,            \* the kind of the last message written by the argument loop
    errlog,         \* messages written to stderr, by kind
    sent,           \* requests handed to mnlu_gen_socket_sndrcv
    ret,            \* exit status of the process ("none" while running)
    iters,          \* argument-loop iterations run so far (outer and sub-loop)
    stalled,        \* some iteration neither consumed a token, nor failed, nor left its loop
    jctx,           \* JSON writer: "none", "live", "deleted"
    jstack,         \* open JSON scopes, innermost last
    monitor_running,\* the sig_atomic_t flag
    sig_installed,  \* monitor_sig_handler is installed for SIGINT/SIGTERM
    mon,            \* cmd_monitor's locals and bookkeeping
    msg,            \* a pin message: the types of its top-level attributes
    handler,        \* which pin message handler runs
    mpc,            \* position inside the pin message handler
    ctx,            \* the five multi_attr_ctx
    mres,           \* bookkeeping of the message handler
    out,            \* what was written to stdout, by kind, in order
    conv            \* a value under conversion: a label, a code or an attribute

vars == <<argv0, opt, pc, dpll, need_nl, nl_open, init_calls, bad_use, nlh,
          has_id, has_device_id, id, device_id, err, why, errlog, sent, ret, iters, stalled, jctx,
          jstack, monitor_running, sig_installed, mon, msg, handler, mpc,
          ctx, mres, out, conv>>

cliVars == <<argv0, opt, pc, dpll, need_nl, nl_open, init_calls, bad_use, nlh,
             has_id, has_device_id, id, device_id, err, why, errlog, sent, ret, iters, stalled, jctx,
             jstack>>
monVars == <<monitor_running, sig_installed, mon>>
msgVars == <<msg, handler, mpc, ctx, mres>>

-----------------------------------------------------------------------------
(* Bounds of the model *)

MaxArgs  == 3   \* longest exhaustively enumerated argument list of a verb
MaxSub   == 2   \* most sub-keyword pairs in one generated nested block
MaxPolls == 3   \* most poll() calls of one monitor run
MaxAttrs == 3   \* most top-level attributes in one pin message
MaxReplies == 2 \* most messages delivered by one dump

(* errno values used by the code *)
EINVAL == 22
ENOENT == 2
ENOMEM == 12

NULL == "<NULL>"

-----------------------------------------------------------------------------
(* Token cursor *)

dpll_argc(d) == d.argc

dpll_argv(d) == IF dpll_argc(d) = 0 THEN NULL ELSE Head(d.argv)

dpll_arg_inc(d) ==
    IF dpll_argc(d) = 0 THEN d
    ELSE [d EXCEPT !.argc = d.argc - 1, !.argv = Tail(d.argv)]

\* variant: the value is read in place and the cursor does not move
dpll_argv_next_noskip(d) == [d |-> d, ret |-> dpll_argv(d)]

dpll_argv_next(d) ==
    LET d1 == dpll_arg_inc(d) IN            \* skip keyword
    IF dpll_argc(d1) = 0 THEN [d |-> d1, ret |-> NULL]
    ELSE [d |-> dpll_arg_inc(d1), ret |-> Head(d1.argv)]

dpll_argv_match(d, pattern) ==
    IF dpll_argc(d) = 0 THEN FALSE ELSE dpll_argv(d) = pattern

dpll_no_arg(d) == dpll_argc(d) = 0

\* variant: a missing value is not noticed
dpll_arg_required_never(d) == 0

dpll_arg_required(d) == IF dpll_argc(d) = 0 THEN -EINVAL ELSE 0

\* variant: a matching token is left where it is
dpll_argv_match_inc_stay(d, pattern) ==
    [d |-> d, ret |-> dpll_argv_match(d, pattern)]

dpll_argv_match_inc(d, pattern) ==
    IF ~dpll_argv_match(d, pattern) THEN [d |-> d, ret |-> FALSE]
    ELSE [d |-> dpll_arg_inc(d), ret |-> TRUE]

-----------------------------------------------------------------------------
(* Numeric string parsers (lib/utils.c, outside src/): a token is a number *)
(* when it is one of the decimal literals below.                           *)

NumTokens == {"0", "1", "3", "5", "10", "10000000", "-1"}

NumValue(s) ==
    CASE s = "0" -> 0
      [] s = "1" -> 1
      [] s = "3" -> 3
      [] s = "5" -> 5
      [] s = "10" -> 10
      [] s = "10000000" -> 10000000
      [] s = "-1" -> -1
      [] OTHER -> 0

\* get_u32 / get_u64 return nonzero on failure; negative input is rejected
get_u32(s) == IF s \in NumTokens /\ NumValue(s) >= 0
              THEN [fail |-> FALSE, val |-> NumValue(s)]
              ELSE [fail |-> TRUE, val |-> 0]

get_u64(s) == IF s \in NumTokens /\ NumValue(s) >= 0
              THEN [fail |-> FALSE, val |-> NumValue(s)]
              ELSE [fail |-> TRUE, val |-> 0]

get_s32(s) == IF s \in NumTokens
              THEN [fail |-> FALSE, val |-> NumValue(s)]
              ELSE [fail |-> TRUE, val |-> 0]

-----------------------------------------------------------------------------
(* Wire encoder (libmnl): a message is the sequence of its top-level       *)
(* attributes; between nest_start and nest_end every put lands inside the  *)
(* nest that was started last.                                             *)

Attr(type, len, val, str) ==
    [type |-> type, len |-> len, val |-> val, str |-> str, sub |-> <<>>]

mnl_attr_put(h, a) ==
    IF h.open
    THEN [h EXCEPT !.attrs[Len(h.attrs)].sub = Append(@, a)]
    ELSE [h EXCEPT !.attrs = Append(@, a)]

mnl_attr_put_u32(h, type, v) == mnl_attr_put(h, Attr(type, 4, v, ""))
\* variant: the value goes out in four bytes
mnl_attr_put_u64_as_u32(h, type, v) == mnl_attr_put(h, Attr(type, 4, v, ""))

mnl_attr_put_u64(h, type, v) == mnl_attr_put(h, Attr(type, 8, v, ""))
mnl_attr_put_strz(h, type, s) == mnl_attr_put(h, Attr(type, 0, 0, s))

mnl_attr_nest_start(h, type) ==
    [h EXCEPT !.attrs = Append(@, Attr(type, 0, 0, "")), !.open = TRUE]

mnl_attr_nest_end(h) == [h EXCEPT !.open = FALSE]

-----------------------------------------------------------------------------
(* Size of a request in the socket buffer                                  *)

\* the buffer mnlu_gen_socket_open allocates for requests
MNL_SOCKET_BUFFER_SIZE == 8192

MNL_ALIGN(n) == ((n + 3) \div 4) * 4

RECURSIVE attrs_size(_)

\* bytes an attribute takes: header, payload (value, string with its NUL,
\* or the attributes of a nest), padding
mnl_attr_size(a) ==
    4 + MNL_ALIGN(IF a.sub # <<>> THEN attrs_size(a.sub)
                  ELSE IF a.str # "" THEN Len(a.str) + 1
                  ELSE a.len)

attrs_size(as) ==
    IF as = <<>> THEN 0 ELSE mnl_attr_size(Head(as)) + attrs_size(Tail(as))

\* nlmsg_len after the puts: nlmsghdr, genlmsghdr, attributes.  The
\* mnl_attr_put_* calls advance it whatever the buffer holds.
nlmsg_len(h) == 16 + 4 + attrs_size(h.attrs)

mnlu_gen_socket_cmd_prepare(cmd, dump) ==
    [cmd |-> cmd, dump |-> dump, attrs |-> <<>>, open |-> FALSE]

NoMsg == mnlu_gen_socket_cmd_prepare("none", FALSE)

-----------------------------------------------------------------------------
(* Enum label parsers.  A result is [err, val].                            *)

\* variant: every token is taken as a state label
dpll_parse_state_lax(d) == [err |-> 0, val |-> 0]

dpll_parse_state(d) ==
    IF dpll_argv_match(d, "connected") THEN [err |-> 0, val |-> 1]
    ELSE IF dpll_argv_match(d, "disconnected") THEN [err |-> 0, val |-> 2]
    ELSE IF dpll_argv_match(d, "selectable") THEN [err |-> 0, val |-> 3]
    ELSE [err |-> -EINVAL, val |-> 0]

dpll_parse_direction(d) ==
    IF dpll_argv_match(d, "input") THEN [err |-> 0, val |-> 1]
    ELSE IF dpll_argv_match(d, "output") THEN [err |-> 0, val |-> 2]
    ELSE [err |-> -EINVAL, val |-> 0]

-----------------------------------------------------------------------------
(* The DPLL_PARSE_* macros.  A macro that executes `return -EINVAL` yields *)
(* err # 0 and the kind of message it printed in why; otherwise err = 0.   *)
(* Results are [d, nlh, err, why] (and val for DPLL_PARSE_U32).            *)

MissingArgument == "requires an argument"
InvalidArgument == "invalid"
UnknownOption   == "unknown option"
IdRequired      == "id is required"

DPLL_PARSE_U32(d) ==
    LET n == dpll_argv_next(d) IN
    IF n.ret = NULL
    THEN [d |-> n.d, err |-> -EINVAL, why |-> MissingArgument, val |-> 0]
    ELSE IF get_u32(n.ret).fail
    THEN [d |-> n.d, err |-> -EINVAL, why |-> InvalidArgument, val |-> 0]
    ELSE [d |-> n.d, err |-> 0, why |-> "", val |-> get_u32(n.ret).val]

DPLL_PARSE_ATTR_U32(d, h, attr_id) ==
    LET r == DPLL_PARSE_U32(d) IN
    IF r.err # 0
    THEN [d |-> r.d, nlh |-> h, err |-> r.err, why |-> r.why]
    ELSE [d |-> r.d, nlh |-> mnl_attr_put_u32(h, attr_id, r.val),
          err |-> 0, why |-> ""]

DPLL_PARSE_ATTR_S32(d, h, attr_id) ==
    LET n == dpll_argv_next(d) IN
    IF n.ret = NULL
    THEN [d |-> n.d, nlh |-> h, err |-> -EINVAL, why |-> MissingArgument]
    ELSE IF get_s32(n.ret).fail
    THEN [d |-> n.d, nlh |-> h, err |-> -EINVAL, why |-> InvalidArgument]
    ELSE [d |-> n.d, nlh |-> mnl_attr_put_u32(h, attr_id, get_s32(n.ret).val),
          err |-> 0, why |-> ""]

DPLL_PARSE_ATTR_U64(d, h, attr_id) ==
    LET n == dpll_argv_next(d) IN
    IF n.ret = NULL
    THEN [d |-> n.d, nlh |-> h, err |-> -EINVAL, why |-> MissingArgument]
    ELSE IF get_u64(n.ret).fail
    THEN [d |-> n.d, nlh |-> h, err |-> -EINVAL, why |-> InvalidArgument]
    ELSE [d |-> n.d, nlh |-> mnl_attr_put_u64(h, attr_id, get_u64(n.ret).val),
          err |-> 0, why |-> ""]

DPLL_PARSE_ATTR_STR(d, h, attr_id) ==
    LET n == dpll_argv_next(d) IN
    IF n.ret = NULL
    THEN [d |-> n.d, nlh |-> h, err |-> -EINVAL, why |-> MissingArgument]
    ELSE [d |-> n.d, nlh |-> mnl_attr_put_strz(h, attr_id, n.ret),
          err |-> 0, why |-> ""]

\* the call parse_func(dpll, &val) of DPLL_PARSE_ATTR_ENUM
parse_func_call(parse_func, d) ==
    IF parse_func = "dpll_parse_state" THEN dpll_parse_state(d)
    ELSE dpll_parse_direction(d)

DPLL_PARSE_ATTR_ENUM(d, h, attr_id, parse_func) ==
    LET d1 == dpll_arg_inc(d) IN
    IF dpll_arg_required(d1) # 0
    THEN [d |-> d1, nlh |-> h, err |-> -EINVAL, why |-> MissingArgument]
    ELSE IF parse_func_call(parse_func, d1).err # 0
    THEN [d |-> d1, nlh |-> h, err |-> -EINVAL, why |-> InvalidArgument]
    ELSE [d |-> dpll_arg_inc(d1),
          nlh |-> mnl_attr_put_u32(h, attr_id, parse_func_call(parse_func, d1).val),
          err |-> 0, why |-> ""]

-----------------------------------------------------------------------------
(* One pass through the body of each verb's `while (dpll_argc(dpll) > 0)`. *)
(* p is the verb's state [d, nlh, err, why, has_id, id, has_device_id,     *)
(* device_id]; the result is that state after the pass.                    *)

Merge(p, r) == [p EXCEPT !.d = r.d, !.nlh = r.nlh, !.err = r.err, !.why = r.why]

Unknown(p) == [p EXCEPT !.err = -EINVAL, !.why = UnknownOption]

cmd_device_show_iter(p) ==
    IF dpll_argv_match(p.d, "id")
    THEN LET r == DPLL_PARSE_U32(p.d) IN
         IF r.err # 0 THEN [p EXCEPT !.d = r.d, !.err = r.err, !.why = r.why]
         ELSE [p EXCEPT !.d = r.d, !.id = r.val, !.has_id = TRUE]
    ELSE Unknown(p)

cmd_device_set_iter(p) ==
    IF dpll_argv_match(p.d, "id")
    THEN LET r == DPLL_PARSE_U32(p.d) IN
         IF r.err # 0 THEN [p EXCEPT !.d = r.d, !.err = r.err, !.why = r.why]
         ELSE [p EXCEPT !.d = r.d, !.id = r.val, !.has_id = TRUE,
                        !.nlh = mnl_attr_put_u32(p.nlh, "DPLL_A_ID", r.val)]
    ELSE IF dpll_argv_match(p.d, "phase-offset-monitor")
    THEN LET n == dpll_argv_next(p.d) IN
         IF n.ret = NULL
         THEN [p EXCEPT !.d = n.d, !.err = -EINVAL, !.why = MissingArgument]
         ELSE IF n.ret = "true" \/ n.ret = "1"
         THEN [p EXCEPT !.d = n.d,
                  !.nlh = mnl_attr_put_u32(p.nlh, "DPLL_A_PHASE_OFFSET_MONITOR", 1)]
         ELSE IF n.ret = "false" \/ n.ret = "0"
         THEN [p EXCEPT !.d = n.d,
                  !.nlh = mnl_attr_put_u32(p.nlh, "DPLL_A_PHASE_OFFSET_MONITOR", 0)]
         ELSE [p EXCEPT !.d = n.d, !.err = -EINVAL, !.why = InvalidArgument]
    ELSE IF dpll_argv_match(p.d, "phase-offset-avg-factor")
    THEN Merge(p, DPLL_PARSE_ATTR_U32(p.d, p.nlh, "DPLL_A_PHASE_OFFSET_AVG_FACTOR"))
    ELSE Unknown(p)

\* the strcmp chain of `type` in cmd_device_id_get: the DPLL_TYPE_* code of
\* a label, 0 when the chain ends in "invalid type"
device_type_code(s) ==
    CASE s = "pps" -> 1
      [] s = "eec" -> 2
      [] OTHER -> 0

cmd_device_id_get_iter(p) ==
    IF dpll_argv_match(p.d, "module-name")
    THEN Merge(p, DPLL_PARSE_ATTR_STR(p.d, p.nlh, "DPLL_A_MODULE_NAME"))
    ELSE IF dpll_argv_match(p.d, "clock-id")
    THEN Merge(p, DPLL_PARSE_ATTR_U64(p.d, p.nlh, "DPLL_A_CLOCK_ID"))
    ELSE IF dpll_argv_match(p.d, "type")
    THEN LET n == dpll_argv_next(p.d) IN
         IF n.ret = NULL
         THEN [p EXCEPT !.d = n.d, !.err = -EINVAL, !.why = MissingArgument]
         ELSE IF device_type_code(n.ret) # 0
         THEN [p EXCEPT !.d = n.d,
                  !.nlh = mnl_attr_put_u32(p.nlh, "DPLL_A_TYPE",
                                           device_type_code(n.ret))]
         ELSE [p EXCEPT !.d = n.d, !.err = -EINVAL, !.why = InvalidArgument]
    ELSE Unknown(p)

cmd_pin_show_iter(p) ==
    IF dpll_argv_match(p.d, "id")
    THEN LET r == DPLL_PARSE_U32(p.d) IN
         IF r.err # 0 THEN [p EXCEPT !.d = r.d, !.err = r.err, !.why = r.why]
         ELSE [p EXCEPT !.d = r.d, !.id = r.val, !.has_id = TRUE]
    ELSE IF dpll_argv_match(p.d, "device")
    THEN LET r == DPLL_PARSE_U32(p.d) IN
         IF r.err # 0 THEN [p EXCEPT !.d = r.d, !.err = r.err, !.why = r.why]
         ELSE [p EXCEPT !.d = r.d, !.device_id = r.val, !.has_device_id = TRUE]
    ELSE Unknown(p)

\* Pin type labels of cmd_pin_id_get and their codes (0: not a label)
pin_type_code(s) ==
    CASE s = "mux" -> 1
      [] s = "ext" -> 2
      [] s = "synce-eth-port" -> 3
      [] s = "int-oscillator" -> 4
      [] s = "gnss" -> 5
      [] OTHER -> 0

cmd_pin_id_get_iter(p) ==
    IF dpll_argv_match(p.d, "module-name")
    THEN Merge(p, DPLL_PARSE_ATTR_STR(p.d, p.nlh, "DPLL_A_PIN_MODULE_NAME"))
    ELSE IF dpll_argv_match(p.d, "clock-id")
    THEN Merge(p, DPLL_PARSE_ATTR_U64(p.d, p.nlh, "DPLL_A_PIN_CLOCK_ID"))
    ELSE IF dpll_argv_match(p.d, "board-label")
    THEN Merge(p, DPLL_PARSE_ATTR_STR(p.d, p.nlh, "DPLL_A_PIN_BOARD_LABEL"))
    ELSE IF dpll_argv_match(p.d, "panel-label")
    THEN Merge(p, DPLL_PARSE_ATTR_STR(p.d, p.nlh, "DPLL_A_PIN_PANEL_LABEL"))
    ELSE IF dpll_argv_match(p.d, "package-label")
    THEN Merge(p, DPLL_PARSE_ATTR_STR(p.d, p.nlh, "DPLL_A_PIN_PACKAGE_LABEL"))
    ELSE IF dpll_argv_match(p.d, "type")
    THEN LET d1 == dpll_arg_inc(p.d) IN
         IF dpll_arg_required(d1) # 0
         THEN [p EXCEPT !.d = d1, !.err = -EINVAL, !.why = MissingArgument]
         ELSE IF pin_type_code(dpll_argv(d1)) # 0
         THEN [p EXCEPT !.d = dpll_arg_inc(d1),
                  !.nlh = mnl_attr_put_u32(p.nlh, "DPLL_A_PIN_TYPE",
                                           pin_type_code(dpll_argv(d1)))]
         ELSE [p EXCEPT !.d = d1, !.err = -EINVAL, !.why = InvalidArgument]
    ELSE Unknown(p)

\* variant: the block id is put without starting a nest
pin_set_nest_open_flat(p, nest_type, id_type) ==
    LET d1 == dpll_arg_inc(p.d) IN
    IF dpll_arg_required(d1) # 0
    THEN [p EXCEPT !.d = d1, !.err = -EINVAL, !.why = MissingArgument]
    ELSE IF get_u32(dpll_argv(d1)).fail
    THEN [p EXCEPT !.d = d1, !.err = -EINVAL, !.why = InvalidArgument]
    ELSE [p EXCEPT !.d = dpll_arg_inc(d1),
             !.nlh = mnl_attr_put_u32(p.nlh, id_type, get_u32(dpll_argv(d1)).val)]

\* The opening of a nested block: skip the opener, require and parse the
\* block id, start the nest and put the id into it.
pin_set_nest_open(p, nest_type, id_type) ==
    LET d1 == dpll_arg_inc(p.d) IN
    IF dpll_arg_required(d1) # 0
    THEN [p EXCEPT !.d = d1, !.err = -EINVAL, !.why = MissingArgument]
    ELSE IF get_u32(dpll_argv(d1)).fail
    THEN [p EXCEPT !.d = d1, !.err = -EINVAL, !.why = InvalidArgument]
    ELSE [p EXCEPT !.d = dpll_arg_inc(d1),
             !.nlh = mnl_attr_put_u32(mnl_attr_nest_start(p.nlh, nest_type),
                                      id_type, get_u32(dpll_argv(d1)).val)]

\* variant: the block is left open for a sub-loop
pin_set_state_block_open(p, nest_type, id_type) ==
    pin_set_nest_open(p, nest_type, id_type)

\* parent-pin and reference-sync: `if (... dpll_argv_match(dpll, "state"))`,
\* at most one state, then mnl_attr_nest_end
pin_set_state_block(p, nest_type, id_type) ==
    LET q == pin_set_nest_open(p, nest_type, id_type) IN
    IF q.err # 0 THEN q
    ELSE IF dpll_argc(q.d) > 0 /\ dpll_argv_match(q.d, "state")
    THEN LET r == DPLL_PARSE_ATTR_ENUM(q.d, q.nlh, "DPLL_A_PIN_STATE",
                                       "dpll_parse_state") IN
         IF r.err # 0 THEN Merge(q, r)
         ELSE [Merge(q, r) EXCEPT !.nlh = mnl_attr_nest_end(r.nlh)]
    ELSE [q EXCEPT !.nlh = mnl_attr_nest_end(q.nlh)]

\* One pass of the outer loop of cmd_pin_set.  After `parent-device ID` the
\* nest is left open: the sub-loop runs next.
cmd_pin_set_iter(p) ==
    IF dpll_argv_match(p.d, "id")
    THEN LET r == DPLL_PARSE_U32(p.d) IN
         IF r.err # 0 THEN [p EXCEPT !.d = r.d, !.err = r.err, !.why = r.why]
         ELSE [p EXCEPT !.d = r.d, !.id = r.val, !.has_id = TRUE,
                        !.nlh = mnl_attr_put_u32(p.nlh, "DPLL_A_PIN_ID", r.val)]
    ELSE IF dpll_argv_match(p.d, "frequency")
    THEN Merge(p, DPLL_PARSE_ATTR_U64(p.d, p.nlh, "DPLL_A_PIN_FREQUENCY"))
    ELSE IF dpll_argv_match(p.d, "phase-adjust")
    THEN Merge(p, DPLL_PARSE_ATTR_S32(p.d, p.nlh, "DPLL_A_PIN_PHASE_ADJUST"))
    ELSE IF dpll_argv_match(p.d, "esync-frequency")
    THEN Merge(p, DPLL_PARSE_ATTR_U64(p.d, p.nlh, "DPLL_A_PIN_ESYNC_FREQUENCY"))
    ELSE IF dpll_argv_match(p.d, "parent-device")
    THEN pin_set_nest_open(p, "DPLL_A_PIN_PARENT_DEVICE", "DPLL_A_PIN_PARENT_ID")
    ELSE IF dpll_argv_match(p.d, "parent-pin")
    THEN pin_set_state_block(p, "DPLL_A_PIN_PARENT_PIN", "DPLL_A_PIN_PARENT_ID")
    ELSE IF dpll_argv_match(p.d, "reference-sync")
    THEN pin_set_state_block(p, "DPLL_A_PIN_REFERENCE_SYNC", "DPLL_A_PIN_ID")
    ELSE Unknown(p)

\* variant: the token that ends the block is consumed
cmd_pin_set_parent_device_iter_skip(p) ==
    IF dpll_argv_match(p.d, "direction")
    THEN Merge(p, DPLL_PARSE_ATTR_ENUM(p.d, p.nlh, "DPLL_A_PIN_DIRECTION",
                                       "dpll_parse_direction"))
    ELSE IF dpll_argv_match(p.d, "prio")
    THEN Merge(p, DPLL_PARSE_ATTR_U32(p.d, p.nlh, "DPLL_A_PIN_PRIO"))
    ELSE IF dpll_argv_match(p.d, "state")
    THEN Merge(p, DPLL_PARSE_ATTR_ENUM(p.d, p.nlh, "DPLL_A_PIN_STATE",
                                       "dpll_parse_state"))
    ELSE [p EXCEPT !.d = dpll_arg_inc(p.d), !.nlh = mnl_attr_nest_end(p.nlh)]

\* One pass of the parent-device sub-loop; the final else is the `break`,
\* followed by mnl_attr_nest_end.
cmd_pin_set_parent_device_iter(p) ==
    IF dpll_argv_match(p.d, "direction")
    THEN Merge(p, DPLL_PARSE_ATTR_ENUM(p.d, p.nlh, "DPLL_A_PIN_DIRECTION",
                                       "dpll_parse_direction"))
    ELSE IF dpll_argv_match(p.d, "prio")
    THEN Merge(p, DPLL_PARSE_ATTR_U32(p.d, p.nlh, "DPLL_A_PIN_PRIO"))
    ELSE IF dpll_argv_match(p.d, "state")
    THEN Merge(p, DPLL_PARSE_ATTR_ENUM(p.d, p.nlh, "DPLL_A_PIN_STATE",
                                       "dpll_parse_state"))
    ELSE [p EXCEPT !.nlh = mnl_attr_nest_end(p.nlh)]

-----------------------------------------------------------------------------
(* The inputs: argument vectors                                            *)

SeqsUpTo(S, n) == UNION {[1..k -> S] : k \in 0..n}

RECURSIVE Flatten(_)
Flatten(ss) == IF ss = <<>> THEN <<>> ELSE Head(ss) \o Flatten(Tail(ss))

Objects == {"device", "pin", "monitor"}

DispatchVocab == {"help", "device", "pin", "monitor", "show", "set",
                  "id-get", "bogus"}

Verbs == {<<"device", "show">>, <<"device", "set">>, <<"device", "id-get">>,
          <<"pin", "show">>, <<"pin", "set">>, <<"pin", "id-get">>}

Vocab(v) ==
    CASE v = <<"device", "show">> -> {"id", "0", "bogus"}
      [] v = <<"device", "set">> ->
            {"id", "phase-offset-monitor", "phase-offset-avg-factor",
             "0", "true", "bogus"}
      [] v = <<"device", "id-get">> ->
            {"module-name", "clock-id", "type", "pps", "0", "bogus"}
      [] v = <<"pin", "show">> -> {"id", "device", "0", "bogus"}
      [] v = <<"pin", "set">> ->
            {"id", "frequency", "phase-adjust",
             "parent-device", "parent-pin",
             "direction", "prio", "state",
             "0", "-1", "connected", "bogus"}
      [] v = <<"pin", "id-get">> ->
            {"module-name", "clock-id", "board-label", "panel-label",
             "package-label", "type", "ext", "0", "bogus"}

\* every object/verb pair followed by every short argument list
VerbArgv == UNION {{v \o s : s \in SeqsUpTo(Vocab(v), MaxArgs)} : v \in Verbs}

\* every command line of at most two dispatcher-level tokens
DispatchArgv == SeqsUpTo(DispatchVocab, 2)

Openers == {"parent-device", "parent-pin", "reference-sync"}

SubPairs == {<<"direction", "input">>, <<"prio", "10">>, <<"state", "connected">>}

\* a nested block (or none): an opener, the block id, up to n sub-keyword
\* pairs
Blocks(idtok, n) ==
    {<<>>} \cup {<<o, idtok>> \o Flatten(sp) :
                    o \in Openers, sp \in SeqsUpTo(SubPairs, n)}

\* `pin set id 3` followed by up to two nested blocks and a top-level tail
NestArgv ==
    {<<"pin", "set", "id", "3">> \o b1 \o b2 \o t :
        b1 \in Blocks("0", MaxSub), b2 \in Blocks("1", 1),
        t \in {<<>>, <<"frequency", "10">>}}

\* command lines of README.md, of spec.md section 8 and of test_dpll.sh
Scenarios ==
    { <<"pin", "set", "id", "5", "frequency", "10000000">>,
      <<"pin", "set", "id", "3", "parent-device", "0", "direction", "input",
        "prio", "10", "state", "connected", "parent-device", "1",
        "direction", "output">>,
      <<"pin", "set", "id", "0", "prio", "10", "state", "connected">>,
      <<"pin", "set", "id", "0", "direction", "input">>,
      <<"pin", "set", "id", "0", "state", "connected">>,
      <<"pin", "set", "id", "0", "phase-adjust", "-1">>,
      <<"pin", "set", "id", "0", "esync-frequency", "10000000">>,
      <<"pin", "set", "id", "0", "parent-device", "0", "direction", "input",
        "prio", "10", "parent-device", "1", "direction", "output",
        "prio", "5">>,
      <<"pin", "set", "id", "0", "parent-pin", "1", "state", "connected">>,
      <<"pin", "set", "id", "1", "parent-pin", "1", "state", "connected",
        "state", "disconnected">>,
      <<"pin", "set", "id", "0", "reference-sync", "1", "state", "connected">>,
      <<"pin", "set", "id", "0", "parent-device", "0", "state", "selectable",
        "prio", "10", "direction", "bogus">>,
      <<"pin", "set", "prio", "10">>,
      <<"pin", "set", "id", "1", "parent-pin", "1", "state", "bogus">>,
      <<"pin", "set", "id", "1", "reference-sync", "1", "state">>,
      <<"pin", "set", "id", "1", "parent-device", "0", "state", "bogus">>,
      <<"device", "set", "id", "0", "phase-offset-monitor", "bogus">>,
      <<"device", "set", "phase-offset-monitor", "true">>,
      <<"device", "set", "id", "0", "phase-offset-monitor", "false">>,
      <<"device", "set", "id", "0", "phase-offset-avg-factor", "10">>,
      <<"device", "id-get", "module-name", "ice", "clock-id", "0">>,
      <<"device", "id-get", "module-name", "ice", "type", "eec">>,
      <<"pin", "id-get", "module-name", "ice", "clock-id", "0", "type", "ext">>,
      <<"pin", "id-get", "board-label", "SMA1", "type", "gnss">>,
      <<"pin", "show", "id", "0", "device", "1">>,
      <<"device", "show", "id", "5">>,
      <<"pin", "show", "id", "0", "id", "5">>,
      <<"pin", "show", "device", "1", "id", "0">> }

Twice(s) == s \o s

\* a string argument of 8192 characters
LongToken ==
    Twice(Twice(Twice(Twice(Twice(Twice(Twice(Twice(Twice(Twice(Twice(Twice(
    Twice("x")))))))))))))

\* id-get with a string that is longer than any request buffer
LongArgv ==
    { <<"device", "id-get", "module-name", LongToken>>,
      <<"pin", "id-get", "board-label", LongToken, "type", "ext">> }

ArgvSet == DispatchArgv \cup VerbArgv \cup NestArgv \cup Scenarios \cup LongArgv

-----------------------------------------------------------------------------
(* Initial state: the process image before main runs                       *)

\* no value is under conversion
NoVal == [kind |-> "none"]

MonInit == [ret |-> 0, polls |-> 0, intr |-> FALSE, after_cancel |-> 0,
            late_iters |-> 0, exit_kind |-> "none", ntfs |-> <<>>]

\* struct multi_attr_ctx ctx = {0}: entries NULL (no storage), count 0.
\* entries holds attribute pointers, here positions in the message (0: NULL)
CtxZero == [count |-> 0, entries |-> <<>>, alloc |-> FALSE, frees |-> 0]

MresInit == [k |-> 1, oob |-> FALSE, ret |-> "MNL_CB_OK", rendered |-> FALSE,
             seen |-> <<>>, tag |-> FALSE, scope |-> 0, failed |-> FALSE]

\* everything that does not depend on the input
BaseInit ==
    /\ opt = "none"
    /\ dpll = [argc |-> 0, argv |-> <<>>, json_output |-> FALSE]
    /\ need_nl = FALSE
    /\ nl_open = FALSE
    /\ init_calls = 0
    /\ bad_use = FALSE
    /\ nlh = NoMsg
    /\ has_id = FALSE
    /\ has_device_id = FALSE
    /\ id = 0
    /\ device_id = 0
    /\ err = 0
    /\ why = ""
    /\ errlog = <<>>
    /\ sent = <<>>
    /\ ret = -1
    /\ iters = 0
    /\ stalled = FALSE
    /\ jctx = "none"
    /\ jstack = <<>>
    /\ monitor_running = 1
    /\ sig_installed = FALSE
    /\ mon = MonInit
    /\ ctx = [k \in 1..5 |-> CtxZero]
    /\ mres = MresInit
    /\ out = <<>>

Init ==
    /\ argv0 \in ArgvSet
    /\ conv = NoVal
    /\ pc = "main"
    /\ msg = <<>>
    /\ handler = "none"
    /\ mpc = "idle"
    /\ BaseInit

-----------------------------------------------------------------------------
(* main                                                                    *)

\* variant: the transport is opened whatever the tokens are
main_need_nl_always(av) == TRUE

\* main's check "skip netlink for help"
main_need_nl(av) ==
    ~(  (Len(av) > 0 /\ av[1] = "help")
     \/ (Len(av) > 1 /\ av[2] = "help"))

\* getopt loop, JSON context, need_nl
MainOptions ==
    /\ pc = "main"
    /\ \E o \in {"V", "bad", "run"}, j \in BOOLEAN :
        /\ opt' = o
        /\ IF o = "V"
           THEN /\ ret' = 0 /\ pc' = "exit"
                /\ out' = Append(out, "version")
                /\ UNCHANGED <<dpll, jctx, jstack, need_nl, errlog>>
           ELSE IF o = "bad"
           THEN /\ ret' = 1 /\ pc' = "exit"
                /\ errlog' = errlog \o <<"Unknown option.", "usage">>
                /\ UNCHANGED <<dpll, jctx, jstack, need_nl, out>>
           ELSE /\ dpll' = [dpll EXCEPT !.json_output = j]
                /\ jctx' = IF j THEN "live" ELSE "none"
                /\ jstack' = IF j THEN <<"object">> ELSE <<>>
                /\ need_nl' = main_need_nl(argv0)
                /\ pc' = IF main_need_nl(argv0) THEN "init" ELSE "cmd"
                /\ UNCHANGED <<ret, errlog, out>>
    /\ UNCHANGED <<argv0, nl_open, init_calls, bad_use, nlh, has_id,
                   has_device_id, id, device_id, err, why, sent, iters, stalled>>
    /\ UNCHANGED <<monVars, msgVars, conv>>

\* dpll_init; on failure main leaves through the label dpll_free
MainInit ==
    /\ pc = "init"
    /\ init_calls' = init_calls + 1
    /\ \E ok \in BOOLEAN :
        IF ok
        THEN /\ nl_open' = TRUE /\ pc' = "cmd" /\ UNCHANGED <<ret, errlog>>
        ELSE /\ errlog' = Append(errlog, "Failed to connect to DPLL Netlink")
             /\ ret' = 1 /\ pc' = "exit" /\ UNCHANGED nl_open
    /\ UNCHANGED <<argv0, opt, dpll, need_nl, bad_use, nlh, has_id,
                   has_device_id, id, device_id, err, why, sent, iters,
                   stalled, jctx, jstack>>
    /\ UNCHANGED <<monVars, msgVars, out, conv>>

\* variant: every command that returned counts as a success
main_exit_status_zero(e) == 0

\* `if (err) ret = EXIT_FAILURE ... else ret = EXIT_SUCCESS`
main_exit_status(e) == IF e # 0 THEN 1 ELSE 0

\* the labels dpll_fini and dpll_free after dpll_cmd returned
MainFini ==
    /\ pc = "fini"
    /\ ret' = main_exit_status(err)
    /\ nl_open' = IF need_nl THEN FALSE ELSE nl_open
    /\ bad_use' = bad_use
    /\ jstack' = IF dpll.json_output /\ jstack # <<>>
                 THEN SubSeq(jstack, 1, Len(jstack) - 1) ELSE jstack
    /\ jctx' = IF jctx = "live" THEN "deleted" ELSE jctx
    /\ pc' = "exit"
    /\ UNCHANGED <<argv0, opt, dpll, need_nl, init_calls, nlh, has_id,
                   has_device_id, id, device_id, err, why, errlog, sent,
                   iters, stalled>>
    /\ UNCHANGED <<monVars, msgVars, out, conv>>

-----------------------------------------------------------------------------
(* Dispatcher                                                              *)

\* where a command function goes: [d, pc, err, log]
dpll_cmd_dispatch(d) ==
    IF dpll_argv_match(d, "help") \/ dpll_no_arg(d)
    THEN [d |-> d, pc |-> "fini", err |-> 0, log |-> <<"usage">>]
    ELSE IF dpll_argv_match_inc(d, "device").ret
    THEN [d |-> dpll_argv_match_inc(d, "device").d, pc |-> "cmd_device",
          err |-> 0, log |-> <<>>]
    ELSE IF dpll_argv_match_inc(d, "pin").ret
    THEN [d |-> dpll_argv_match_inc(d, "pin").d, pc |-> "cmd_pin",
          err |-> 0, log |-> <<>>]
    ELSE IF dpll_argv_match_inc(d, "monitor").ret
    THEN [d |-> dpll_argv_match_inc(d, "monitor").d, pc |-> "cmd_monitor",
          err |-> 0, log |-> <<>>]
    ELSE [d |-> d, pc |-> "fini", err |-> -ENOENT, log |-> <<"Object not found">>]

cmd_object_dispatch(d, obj) ==
    IF dpll_argv_match(d, "help") \/ dpll_no_arg(d)
    THEN [d |-> d, pc |-> "fini", err |-> 0, log |-> <<obj \o " usage">>]
    ELSE IF dpll_argv_match_inc(d, "show").ret
    THEN [d |-> dpll_argv_match_inc(d, "show").d, pc |-> obj \o "_show",
          err |-> 0, log |-> <<>>]
    ELSE IF dpll_argv_match_inc(d, "set").ret
    THEN [d |-> dpll_argv_match_inc(d, "set").d, pc |-> obj \o "_set",
          err |-> 0, log |-> <<>>]
    ELSE IF dpll_argv_match_inc(d, "id-get").ret
    THEN [d |-> dpll_argv_match_inc(d, "id-get").d, pc |-> obj \o "_id_get",
          err |-> 0, log |-> <<>>]
    ELSE [d |-> d, pc |-> "fini", err |-> -ENOENT, log |-> <<"Command not found">>]

cmd_device(d) == cmd_object_dispatch(d, "device")

cmd_pin(d) == cmd_object_dispatch(d, "pin")

\* the request a verb prepares on entry (the show verbs prepare it later)
verb_prepare(p) ==
    CASE p = "device_set" -> mnlu_gen_socket_cmd_prepare("DPLL_CMD_DEVICE_SET", FALSE)
      [] p = "device_id_get" -> mnlu_gen_socket_cmd_prepare("DPLL_CMD_DEVICE_ID_GET", FALSE)
      [] p = "pin_set" -> mnlu_gen_socket_cmd_prepare("DPLL_CMD_PIN_SET", FALSE)
      [] p = "pin_id_get" -> mnlu_gen_socket_cmd_prepare("DPLL_CMD_PIN_ID_GET", FALSE)
      [] OTHER -> NoMsg

Dispatched(r) ==
    /\ dpll' = r.d
    /\ pc' = r.pc
    /\ err' = r.err
    /\ errlog' = errlog \o r.log
    /\ nlh' = verb_prepare(r.pc)
    /\ UNCHANGED <<argv0, opt, need_nl, nl_open, init_calls, bad_use, has_id,
                   has_device_id, id, device_id, why, sent, ret, iters,
                   stalled, jctx, jstack>>
    /\ UNCHANGED <<monVars, msgVars, out, conv>>

DpllCmd ==
    /\ pc = "cmd"
    /\ Dispatched(dpll_cmd_dispatch(
            [dpll EXCEPT !.argc = Len(argv0), !.argv = argv0]))

CmdDevice ==
    /\ pc = "cmd_device"
    /\ Dispatched(cmd_device(dpll))

CmdPin ==
    /\ pc = "cmd_pin"
    /\ Dispatched(cmd_pin(dpll))

-----------------------------------------------------------------------------
(* Argument loops                                                          *)

\* the running verb's locals, as the iteration operators take them
P == [d |-> dpll, nlh |-> nlh, err |-> 0, why |-> "", has_id |-> has_id,
      id |-> id, has_device_id |-> has_device_id, device_id |-> device_id]

\* one pass of a loop body ended in state q; the loop goes on at `next`
\* unless the pass returned an error
ArgStep(q, next) ==
    /\ dpll' = q.d
    /\ nlh' = q.nlh
    /\ has_id' = q.has_id
    /\ id' = q.id
    /\ has_device_id' = q.has_device_id
    /\ device_id' = q.device_id
    /\ err' = q.err
    /\ why' = q.why
    /\ errlog' = IF q.err # 0 THEN Append(errlog, q.why) ELSE errlog
    /\ iters' = iters + 1
    /\ stalled' = (stalled \/ (q.err = 0 /\ q.d.argc = dpll.argc /\ next = pc))
    /\ pc' = IF q.err # 0 THEN "fini" ELSE next
    /\ UNCHANGED <<argv0, opt, need_nl, nl_open, init_calls, bad_use, sent,
                   ret, jctx, jstack>>
    /\ UNCHANGED <<monVars, msgVars, out, conv>>

DeviceShowArg ==
    /\ pc = "device_show" /\ dpll_argc(dpll) > 0
    /\ ArgStep(cmd_device_show_iter(P), "device_show")

DeviceSetArg ==
    /\ pc = "device_set" /\ dpll_argc(dpll) > 0
    /\ ArgStep(cmd_device_set_iter(P), "device_set")

DeviceIdGetArg ==
    /\ pc = "device_id_get" /\ dpll_argc(dpll) > 0
    /\ ArgStep(cmd_device_id_get_iter(P), "device_id_get")

PinShowArg ==
    /\ pc = "pin_show" /\ dpll_argc(dpll) > 0
    /\ ArgStep(cmd_pin_show_iter(P), "pin_show")

PinIdGetArg ==
    /\ pc = "pin_id_get" /\ dpll_argc(dpll) > 0
    /\ ArgStep(cmd_pin_id_get_iter(P), "pin_id_get")

PinSetArg ==
    /\ pc = "pin_set" /\ dpll_argc(dpll) > 0
    /\ LET q == cmd_pin_set_iter(P) IN
       ArgStep(q, IF q.nlh.open THEN "pin_set_parent_device" ELSE "pin_set")

\* a pass of the parent-device sub-loop (the `break` pass included)
PinSetParentDeviceArg ==
    /\ pc = "pin_set_parent_device" /\ dpll_argc(dpll) > 0
    /\ LET q == cmd_pin_set_parent_device_iter(P) IN
       ArgStep(q, IF q.nlh.open THEN "pin_set_parent_device" ELSE "pin_set")

\* the sub-loop's condition is false: mnl_attr_nest_end
PinSetParentDeviceEnd ==
    /\ pc = "pin_set_parent_device" /\ dpll_argc(dpll) = 0
    /\ nlh' = mnl_attr_nest_end(nlh)
    /\ pc' = "pin_set"
    /\ UNCHANGED <<argv0, opt, dpll, need_nl, nl_open, init_calls, bad_use,
                   has_id, has_device_id, id, device_id, err, why, errlog,
                   sent, ret, iters, stalled, jctx, jstack>>
    /\ UNCHANGED <<monVars, msgVars, out, conv>>

-----------------------------------------------------------------------------
(* After the loop: the required-id check and the request                   *)

cmd_device_show_request(hid, i) ==
    IF hid
    THEN mnl_attr_put_u32(mnlu_gen_socket_cmd_prepare("DPLL_CMD_DEVICE_GET", FALSE),
                          "DPLL_A_ID", i)
    ELSE mnlu_gen_socket_cmd_prepare("DPLL_CMD_DEVICE_GET", TRUE)

\* variant: the device filter goes into the request whenever it was given
cmd_pin_show_request_filtered(hid, i, hdev, dev) ==
    LET h == mnlu_gen_socket_cmd_prepare("DPLL_CMD_PIN_GET", ~hid)
        g == IF hid THEN mnl_attr_put_u32(h, "DPLL_A_PIN_ID", i) ELSE h
    IN IF hdev THEN mnl_attr_put_u32(g, "DPLL_A_ID", dev) ELSE g

cmd_pin_show_request(hid, i, hdev, dev) ==
    IF hid
    THEN mnl_attr_put_u32(mnlu_gen_socket_cmd_prepare("DPLL_CMD_PIN_GET", FALSE),
                          "DPLL_A_PIN_ID", i)
    ELSE IF hdev
    THEN mnl_attr_put_u32(mnlu_gen_socket_cmd_prepare("DPLL_CMD_PIN_GET", TRUE),
                          "DPLL_A_ID", dev)
    ELSE mnlu_gen_socket_cmd_prepare("DPLL_CMD_PIN_GET", TRUE)

\* variant: the request goes out without an id
set_requires_id_never(hid) == FALSE

\* `if (!has_id) return -EINVAL` of the SET verbs
set_requires_id(hid) == ~hid

\* A GET reply as the show verbs see it: does it carry the id attribute
\* (the other attributes are always there)
Reply(hasid) == [has_id |-> hasid]

ReplySeqs(n) == {[i \in 1..Len(b) |-> Reply(b[i])] : b \in SeqsUpTo(BOOLEAN, n)}

\* the answer to a non-dump GET: one message, or none with an error
SingleReplies(ok) == IF ok THEN {<<Reply(b)>> : b \in BOOLEAN} ELSE {<<>>}

\* cmd_device_id_get_cb / cmd_pin_id_get_cb: the id of a reply that has one;
\* in JSON the device callback wraps it in an object, the pin callback does
\* not
id_get_output(cb, replies, json) ==
    IF replies # <<>> /\ replies[1].has_id
    THEN (IF json /\ cb = "cmd_device_id_get_cb"
          THEN <<"{", "id", "}">> ELSE <<"id">>)
    ELSE <<>>

\* the tail of a verb: optional id check, then mnlu_gen_socket_sndrcv with
\* the verb's callback (cb: "none" for the set verbs)
VerbEnd(req, need_id, failmsg, cb) ==
    /\ IF need_id /\ set_requires_id(has_id)
       THEN /\ err' = -EINVAL
            /\ why' = IdRequired
            /\ errlog' = Append(errlog, IdRequired)
            /\ UNCHANGED <<sent, bad_use, out>>
       ELSE \E ok \in BOOLEAN :
            \E replies \in (IF cb # "none" THEN SingleReplies(ok) ELSE {<<>>}) :
            /\ sent' = Append(sent, req)
            /\ bad_use' = (bad_use \/ ~nl_open)
            /\ out' = out \o id_get_output(cb, replies, dpll.json_output)
            /\ err' = IF ok THEN 0 ELSE -1
            /\ errlog' = IF ok THEN errlog ELSE Append(errlog, failmsg)
            /\ UNCHANGED why
    /\ pc' = "fini"
    /\ UNCHANGED <<argv0, opt, dpll, need_nl, nl_open, init_calls, nlh,
                   has_id, has_device_id, id, device_id, ret, iters, stalled,
                   jctx, jstack>>
    /\ UNCHANGED <<monVars, msgVars, conv>>

\* dpll_device_print_attrs / dpll_pin_print_attrs: every attribute that is
\* present is printed, the id line first
dpll_device_print_attrs(r) ==
    (IF r.has_id THEN <<"device id">> ELSE <<>>) \o <<"device attrs">>

dpll_pin_print_attrs(r) ==
    (IF r.has_id THEN <<"pin id">> ELSE <<>>) \o <<"pin attrs">>

print_attrs(obj, r) ==
    IF obj = "device" THEN dpll_device_print_attrs(r) ELSE dpll_pin_print_attrs(r)

\* open_json_object / close_json_object / open_json_array / close_json_array
\* write only in a JSON context
json_scope(json, token) == IF json THEN <<token>> ELSE <<>>

\* cmd_device_show_cb, cmd_pin_show_cb: what the callback writes
show_cb(obj, r, json) == print_attrs(obj, r)

\* cmd_device_show_dump_cb, cmd_pin_show_dump_cb
show_dump_cb(obj, r, json) ==
    json_scope(json, "{") \o print_attrs(obj, r) \o json_scope(json, "}")

\* what cmd_*_show_id writes for the replies received
show_id_output(obj, replies, json) ==
    Flatten([i \in 1..Len(replies) |-> show_cb(obj, replies[i], json)])

\* variant: the dump is written without its array
show_dump_output_bare(obj, replies, json) ==
    Flatten([i \in 1..Len(replies) |-> show_dump_cb(obj, replies[i], json)])

\* what cmd_*_show_dump writes: the array is opened before the exchange and
\* closed on both of its outcomes
show_dump_output(obj, replies, json) ==
    json_scope(json, "[" \o obj)
    \o Flatten([i \in 1..Len(replies) |-> show_dump_cb(obj, replies[i], json)])
    \o json_scope(json, "]")

\* cmd_*_show_id / cmd_*_show_dump: the exchange with the kernel.  A
\* non-dump GET is answered by one message or by an error; a dump delivers
\* some messages and then ends or fails.
ShowEnd(obj, req, single, failmsg) ==
    /\ \E ok \in BOOLEAN :
       \E replies \in (IF single THEN SingleReplies(ok)
                                  ELSE ReplySeqs(MaxReplies)) :
            /\ sent' = Append(sent, req)
            /\ bad_use' = (bad_use \/ ~nl_open)
            /\ out' = out \o (IF single
                              THEN show_id_output(obj, replies, dpll.json_output)
                              ELSE show_dump_output(obj, replies, dpll.json_output))
            /\ err' = IF ok THEN 0 ELSE -1
            /\ errlog' = IF ok THEN errlog ELSE Append(errlog, failmsg)
    /\ pc' = "fini"
    /\ UNCHANGED <<argv0, opt, dpll, need_nl, nl_open, init_calls, nlh,
                   has_id, has_device_id, id, device_id, why, ret, iters,
                   stalled, jctx, jstack>>
    /\ UNCHANGED <<monVars, msgVars, conv>>

DeviceShowRun ==
    /\ pc = "device_show" /\ dpll_argc(dpll) = 0
    /\ ShowEnd("device", cmd_device_show_request(has_id, id), has_id,
               IF has_id THEN "Failed to get device" ELSE "Failed to dump devices")

DeviceSetRun ==
    /\ pc = "device_set" /\ dpll_argc(dpll) = 0
    /\ VerbEnd(nlh, TRUE, "Failed to set device", "none")

DeviceIdGetRun ==
    /\ pc = "device_id_get" /\ dpll_argc(dpll) = 0
    /\ VerbEnd(nlh, FALSE, "Failed to get device id",
               "cmd_device_id_get_cb")

PinShowRun ==
    /\ pc = "pin_show" /\ dpll_argc(dpll) = 0
    /\ ShowEnd("pin", cmd_pin_show_request(has_id, id, has_device_id, device_id),
               has_id,
               IF has_id THEN "Failed to get pin" ELSE "Failed to dump pins")

PinSetRun ==
    /\ pc = "pin_set" /\ dpll_argc(dpll) = 0
    /\ VerbEnd(nlh, TRUE, "Failed to set pin", "none")

PinIdGetRun ==
    /\ pc = "pin_id_get" /\ dpll_argc(dpll) = 0
    /\ VerbEnd(nlh, FALSE, "Failed to get pin id", "cmd_pin_id_get_cb")

-----------------------------------------------------------------------------
(* Monitor                                                                 *)

monitor_sig_handler == 0

\* variant: a loop that does not test the flag
monitor_loop_cond_always(running) == TRUE

\* `while (monitor_running)`
monitor_loop_cond(running) == running # 0

\* cmd_monitor's return value
cmd_monitor_return(r) == IF r < 0 THEN r ELSE 0

MonFrame ==
    UNCHANGED <<argv0, opt, dpll, need_nl, nl_open, init_calls, nlh, has_id,
                has_device_id, id, device_id, why, sent, iters, stalled, jctx>>

\* cmd_monitor up to the loop: subscription, handlers, fd, array scope.
\* On a socket that was never opened the subscription dereferences the
\* zeroed socket: the call fails or the process dies.
CmdMonitorSetup ==
    /\ pc = "cmd_monitor"
    /\ bad_use' = (bad_use \/ ~nl_open)
    /\ \E o \in (IF nl_open THEN {"ok", "group_fail", "fd_fail"}
                             ELSE {"group_fail", "crash"}) :
        /\ CASE o = "group_fail" ->
                   /\ err' = -1 /\ pc' = "fini"
                   /\ errlog' = Append(errlog, "Failed to subscribe to monitor group")
                   /\ UNCHANGED <<sig_installed, jstack, ret>>
             [] o = "fd_fail" ->
                   /\ err' = -1 /\ pc' = "fini"
                   /\ errlog' = Append(errlog, "Failed to get netlink socket fd")
                   /\ sig_installed' = TRUE
                   /\ UNCHANGED <<jstack, ret>>
             [] o = "crash" ->
                   /\ ret' = 139 /\ pc' = "exit"
                   /\ UNCHANGED <<err, errlog, sig_installed, jstack>>
             [] o = "ok" ->
                   /\ sig_installed' = TRUE
                   /\ jstack' = IF dpll.json_output THEN Append(jstack, "array")
                                ELSE jstack
                   /\ pc' = "mon_loop"
                   /\ UNCHANGED <<err, errlog, ret>>
        /\ out' = IF o \in {"ok", "fd_fail"} /\ ~dpll.json_output
                  THEN Append(out, "Monitoring DPLL events")
                  ELSE out
    /\ MonFrame
    /\ UNCHANGED <<monitor_running, mon, msgVars, conv>>

\* SIGINT or SIGTERM is delivered while the handler is installed
Signal ==
    /\ sig_installed
    /\ pc \in {"mon_loop", "mon_poll_call", "mon_in_poll", "mon_recv"}
    /\ monitor_running = 1
    /\ monitor_running' = monitor_sig_handler
    /\ mon' = [mon EXCEPT !.intr = (pc = "mon_in_poll")]
    /\ MonFrame
    /\ UNCHANGED <<pc, bad_use, err, errlog, ret, jstack, sig_installed, msgVars, out, conv>>

\* the test of `while (monitor_running)`
MonLoopCheck ==
    /\ pc = "mon_loop"
    /\ IF monitor_loop_cond(monitor_running)
       THEN /\ mon.polls < MaxPolls
            /\ pc' = "mon_poll_call"
            /\ mon' = [mon EXCEPT !.late_iters =
                          IF monitor_running = 0 THEN @ + 1 ELSE @]
       ELSE /\ pc' = "mon_exit"
            /\ mon' = [mon EXCEPT !.exit_kind = "flag"]
    /\ MonFrame
    /\ UNCHANGED <<bad_use, err, errlog, ret, jstack, sig_installed,
                   monitor_running, msgVars, out, conv>>

\* poll() is entered
MonPollEnter ==
    /\ pc = "mon_poll_call"
    /\ pc' = "mon_in_poll"
    /\ mon' = [mon EXCEPT !.polls = @ + 1, !.intr = FALSE,
                          !.after_cancel =
                              IF monitor_running = 0 THEN @ + 1 ELSE @]
    /\ MonFrame
    /\ UNCHANGED <<bad_use, err, errlog, ret, jstack, sig_installed,
                   monitor_running, msgVars, out, conv>>

\* where the loop goes after poll() returned r: [ret, pc, kind]
monitor_after_poll(r) ==
    CASE r = "eintr"   -> [ret |-> -1, pc |-> "mon_loop", kind |-> "none"]
      [] r = "error"   -> [ret |-> -ENOMEM, pc |-> "mon_exit", kind |-> "break"]
      [] r = "timeout" -> [ret |-> 0, pc |-> "mon_loop", kind |-> "none"]
      [] r = "data"    -> [ret |-> 1, pc |-> "mon_recv", kind |-> "none"]

\* poll() returns: interrupted, failed, timed out, or readable
MonPollReturn ==
    /\ pc = "mon_in_poll"
    /\ \E r \in {"eintr", "error", "timeout", "data"} :
        /\ pc' = monitor_after_poll(r).pc
        /\ mon' = [mon EXCEPT !.ret = monitor_after_poll(r).ret,
                              !.exit_kind = monitor_after_poll(r).kind]
        /\ errlog' = IF r = "error" THEN Append(errlog, "poll() failed")
                     ELSE errlog
    /\ MonFrame
    /\ UNCHANGED <<bad_use, err, ret, jstack, sig_installed,
                   monitor_running, msgVars, out, conv>>

DeviceNtf == {"DPLL_CMD_DEVICE_CREATE_NTF", "DPLL_CMD_DEVICE_CHANGE_NTF",
              "DPLL_CMD_DEVICE_DELETE_NTF"}

PinNtf == {"DPLL_CMD_PIN_CREATE_NTF", "DPLL_CMD_PIN_CHANGE_NTF",
           "DPLL_CMD_PIN_DELETE_NTF"}

\* variant: the fallthrough cases overwrite cmd_name unconditionally
monitor_cmd_name_fallthrough(cmd) ==
    IF cmd \in DeviceNtf THEN "DEVICE_DELETE"
    ELSE IF cmd \in PinNtf THEN "PIN_DELETE"
    ELSE "UNKNOWN"

\* cmd_name when the switch of cmd_monitor_cb reaches pr_out
monitor_cmd_name(cmd) ==
    CASE cmd = "DPLL_CMD_DEVICE_CREATE_NTF" -> "DEVICE_CREATE"
      [] cmd = "DPLL_CMD_DEVICE_CHANGE_NTF" -> "DEVICE_CHANGE"
      [] cmd = "DPLL_CMD_DEVICE_DELETE_NTF" -> "DEVICE_DELETE"
      [] cmd = "DPLL_CMD_PIN_CREATE_NTF" -> "PIN_CREATE"
      [] cmd = "DPLL_CMD_PIN_CHANGE_NTF" -> "PIN_CHANGE"
      [] cmd = "DPLL_CMD_PIN_DELETE_NTF" -> "PIN_DELETE"
      [] OTHER -> "UNKNOWN"

\* cmd_monitor_cb on a message of kind cmd carrying the attributes r;
\* alloc_ok: the multi_attr_ctx_init calls of the pin cases succeed.
\* [out, log, ret]
cmd_monitor_cb(cmd, r, alloc_ok) ==
    IF cmd \in DeviceNtf
    THEN [out |-> <<"[" \o monitor_cmd_name(cmd) \o "] ">>
                    \o dpll_device_print_attrs(r),
          log |-> <<>>, ret |-> "MNL_CB_OK"]
    ELSE IF cmd \in PinNtf
    THEN IF alloc_ok
         THEN [out |-> <<"[" \o monitor_cmd_name(cmd) \o "] ">>
                         \o dpll_pin_print_attrs(r),
               log |-> <<>>, ret |-> "MNL_CB_OK"]
         ELSE [out |-> <<>>,
               log |-> <<"Failed to allocate memory for multi-attr processing">>,
               ret |-> "MNL_CB_ERROR"]
    ELSE [out |-> <<>>, log |-> <<"Unknown notification command">>,
          ret |-> "MNL_CB_OK"]

\* the kinds of message the multicast group can deliver; the last one is
\* not a notification
NtfInputs == DeviceNtf \cup PinNtf \cup {"DPLL_CMD_PIN_GET"}

\* mnlu_gen_socket_recv_run: the receive fails, or one message is handed to
\* cmd_monitor_cb
MonRecv ==
    /\ pc = "mon_recv"
    /\ \/ /\ mon' = [mon EXCEPT !.ret = -1, !.exit_kind = "break"]
          /\ pc' = "mon_exit"
          /\ errlog' = IF monitor_running # 0
                       THEN Append(errlog, "Failed to receive notifications")
                       ELSE errlog
          /\ out' = out
       \/ \E cmd \in NtfInputs, alloc_ok \in BOOLEAN :
            LET cb == cmd_monitor_cb(cmd, Reply(TRUE), alloc_ok)
                r == IF cb.ret = "MNL_CB_ERROR" THEN -1 ELSE 0
            IN
            /\ cmd \in PinNtf \/ alloc_ok
            /\ mon' = [mon EXCEPT !.ret = r,
                         !.exit_kind = IF r < 0 THEN "break" ELSE "none",
                         !.ntfs = Append(@, [cmd |-> cmd, alloc_ok |-> alloc_ok])]
            /\ pc' = IF r < 0 THEN "mon_exit" ELSE "mon_loop"
            /\ out' = out \o cb.out
            /\ errlog' = errlog \o cb.log \o
                         (IF r < 0 /\ monitor_running # 0
                          THEN <<"Failed to receive notifications">>
                          ELSE <<>>)
    /\ MonFrame
    /\ UNCHANGED <<bad_use, err, ret, jstack, sig_installed,
                   monitor_running, msgVars, conv>>

\* after the loop: close the array, reset the handlers, return
MonExit ==
    /\ pc = "mon_exit"
    /\ jstack' = IF dpll.json_output /\ jstack # <<>>
                 THEN SubSeq(jstack, 1, Len(jstack) - 1) ELSE jstack
    /\ sig_installed' = FALSE
    /\ err' = cmd_monitor_return(mon.ret)
    /\ pc' = "fini"
    /\ MonFrame
    /\ UNCHANGED <<bad_use, errlog, ret, monitor_running, mon, msgVars, out, conv>>

-----------------------------------------------------------------------------
(* Pin message handlers: cmd_pin_show_cb, cmd_pin_show_dump_cb and the pin *)
(* branch of cmd_monitor_cb.  A message is the sequence of the types of    *)
(* its top-level attributes; an attribute is named by its position.        *)

\* the contexts in the order the handlers treat them: parent_dev_ctx,
\* parent_pin_ctx, ref_sync_ctx, freq_supp_ctx, esync_freq_supp_ctx
MultiAttr == <<"DPLL_A_PIN_PARENT_DEVICE", "DPLL_A_PIN_PARENT_PIN",
               "DPLL_A_PIN_REFERENCE_SYNC", "DPLL_A_PIN_FREQUENCY_SUPPORTED",
               "DPLL_A_PIN_ESYNC_FREQUENCY_SUPPORTED">>

AttrTypes == {MultiAttr[k] : k \in 1..5} \cup {"DPLL_A_PIN_ID", "DPLL_A_PIN_FREQUENCY"}

Messages == SeqsUpTo(AttrTypes, MaxAttrs)

Handlers == {"cmd_pin_show_cb", "cmd_pin_show_dump_cb", "cmd_monitor_cb"}

count_multi_attr_cb(type, attr_type, count) ==
    IF type = attr_type THEN count + 1 ELSE count

\* mnl_attr_parse with count_multi_attr_cb, from attribute `from` on
RECURSIVE count_walk(_, _, _, _)
count_walk(m, attr_type, from, count) ==
    IF from > Len(m) THEN count
    ELSE count_walk(m, attr_type, from + 1,
                    count_multi_attr_cb(m[from], attr_type, count))

multi_attr_count_get(m, attr_type) == count_walk(m, attr_type, 1, 0)

\* calloc(count, sizeof(struct nlattr *)) succeeded
multi_attr_ctx_init(c, count) ==
    IF count = 0 THEN [c EXCEPT !.count = 0, !.entries = <<>>, !.alloc = FALSE]
    ELSE [c EXCEPT !.entries = [i \in 1..count |-> 0], !.alloc = TRUE,
                   !.count = 0]

\* variant: the storage is kept
multi_attr_ctx_free_leak(c) == c

\* free(entries); entries = NULL; count = 0.  frees counts the releases of
\* allocated storage
multi_attr_ctx_free(c) ==
    [c EXCEPT !.entries = <<>>, !.alloc = FALSE, !.count = 0,
              !.frees = IF c.alloc THEN @ + 1 ELSE @]

\* variant: every attribute is stored, whatever its type
collect_multi_attr_cb_any(cw, type, attr_type, pos) ==
    IF cw.c.count + 1 > Len(cw.c.entries)
    THEN [c |-> [cw.c EXCEPT !.count = @ + 1], oob |-> TRUE]
    ELSE [c |-> [cw.c EXCEPT !.entries[cw.c.count + 1] = pos, !.count = @ + 1],
          oob |-> cw.oob]

\* entries[count++] = attr for an attribute of the wanted type; cw is
\* [c, oob], oob: a write outside the storage happened
collect_multi_attr_cb(cw, type, attr_type, pos) ==
    IF type = attr_type
    THEN IF cw.c.count + 1 > Len(cw.c.entries)
         THEN [c |-> [cw.c EXCEPT !.count = @ + 1], oob |-> TRUE]
         ELSE [c |-> [cw.c EXCEPT !.entries[cw.c.count + 1] = pos,
                                  !.count = @ + 1],
               oob |-> cw.oob]
    ELSE cw

\* mnl_attr_parse with collect_multi_attr_cb, from attribute `from` on
RECURSIVE collect_walk(_, _, _, _)
collect_walk(m, attr_type, from, cw) ==
    IF from > Len(m) THEN cw
    ELSE collect_walk(m, attr_type, from + 1,
                      collect_multi_attr_cb(cw, m[from], attr_type, from))

MsgFrame == UNCHANGED <<cliVars, monVars, msg, handler, out, conv>>

\* variant: a failed allocation is not tested and the passes go on
after_count_unchecked(k, ok) == IF k < 5 THEN "count" ELSE "collect"

\* `if (count > 0 && multi_attr_ctx_init(..) < 0) goto err_alloc;`: where
\* the handler goes after context k
after_count(k, ok) ==
    IF ok THEN (IF k < 5 THEN "count" ELSE "collect") ELSE "err_alloc"

\* the text printed at err_alloc / pin_ntf_err
alloc_failure_text(h) ==
    IF h = "cmd_monitor_cb"
    THEN "Failed to allocate memory for multi-attr processing"
    ELSE "Failed to allocate memory for multi-attr collection"

\* pass 1 for context k: count, and allocate when the count is positive;
\* a failed allocation jumps to err_alloc, which reports, sets
\* ret = MNL_CB_ERROR and falls into cleanup
MsgCount ==
    /\ mpc = "count"
    /\ LET k == mres.k
           count == multi_attr_count_get(msg, MultiAttr[k]) IN
       \E ok \in (IF count > 0 THEN BOOLEAN ELSE {TRUE}) :
          LET to == after_count(k, ok) IN
          /\ ctx' = IF count > 0 /\ ok
                    THEN [ctx EXCEPT ![k] = multi_attr_ctx_init(@, count)]
                    ELSE ctx
          /\ mres' = [mres EXCEPT
                        !.k = IF to = "err_alloc" THEN @
                              ELSE IF k < 5 THEN k + 1 ELSE 1,
                        !.ret = IF to = "err_alloc" THEN "MNL_CB_ERROR" ELSE @,
                        !.failed = @ \/ ~ok]
          /\ mpc' = IF to = "err_alloc" THEN "cleanup" ELSE to
          /\ errlog' = IF to = "err_alloc"
                       THEN Append(errlog, alloc_failure_text(handler))
                       ELSE errlog
    /\ UNCHANGED <<argv0, opt, pc, dpll, need_nl, nl_open, init_calls, bad_use,
                   nlh, has_id, has_device_id, id, device_id, err, why, sent,
                   ret, iters, stalled, jctx, jstack>>
    /\ UNCHANGED <<monVars, msg, handler, out, conv>>

\* pass 2 for context k: `if (ctx.entries) mnl_attr_parse(... collect ...)`
MsgCollect ==
    /\ mpc = "collect"
    /\ LET k == mres.k
           cw == IF ctx[k].alloc
                 THEN collect_walk(msg, MultiAttr[k], 1,
                                   [c |-> ctx[k], oob |-> mres.oob])
                 ELSE [c |-> ctx[k], oob |-> mres.oob] IN
       /\ ctx' = [ctx EXCEPT ![k] = cw.c]
       /\ mres' = [mres EXCEPT !.k = IF k < 5 THEN k + 1 ELSE 1, !.oob = cw.oob]
       /\ mpc' = IF k < 5 THEN "collect" ELSE "render"
    /\ MsgFrame

\* tb[A] = ctx.count > 0 ? &ctx : NULL, then dpll_pin_print_attrs walks
\* entries[0 .. count-1] of every context that is set
MsgRender ==
    /\ mpc = "render"
    /\ mres' = [mres EXCEPT
                  !.rendered = TRUE,
                  !.tag = (handler = "cmd_monitor_cb"),
                  !.scope = IF handler = "cmd_pin_show_dump_cb" THEN 1 ELSE 0,
                  !.seen = [k \in 1..5 |->
                              IF ctx[k].count > 0
                              THEN [i \in 1..ctx[k].count |->
                                       IF i <= Len(ctx[k].entries)
                                       THEN ctx[k].entries[i] ELSE -1]
                              ELSE <<>>]]
    /\ mpc' = "cleanup"
    /\ UNCHANGED ctx
    /\ MsgFrame

\* the label cleanup: free the five contexts and return
MsgCleanup ==
    /\ mpc = "cleanup"
    /\ ctx' = [k \in 1..5 |-> multi_attr_ctx_free(ctx[k])]
    /\ mpc' = "done"
    /\ UNCHANGED mres
    /\ MsgFrame

\* what the caller of the handler prints when the handler failed
handler_failure_text(h) ==
    CASE h = "cmd_pin_show_cb" -> "Failed to get pin"
      [] h = "cmd_pin_show_dump_cb" -> "Failed to dump pins"
      [] OTHER -> "Failed to receive notifications"

\* the handler returns ret to the transport, which hands a negative result
\* to the operation when ret is MNL_CB_ERROR: cmd_pin_show_id and
\* cmd_pin_show_dump report and return -1, the loop of cmd_monitor reports
\* and breaks
MsgReturn ==
    /\ pc = "callback" /\ mpc = "done"
    /\ mpc' = "returned"
    /\ LET r == IF mres.ret = "MNL_CB_ERROR" THEN -1 ELSE 0 IN
       /\ errlog' = IF r < 0 /\ (handler # "cmd_monitor_cb" \/ monitor_running # 0)
                    THEN Append(errlog, handler_failure_text(handler))
                    ELSE errlog
       /\ IF handler = "cmd_monitor_cb"
          THEN /\ mon' = [mon EXCEPT !.ret = r,
                            !.exit_kind = IF r < 0 THEN "break" ELSE "none"]
               /\ pc' = IF r < 0 THEN "mon_exit" ELSE "mon_loop"
               /\ err' = err
          ELSE /\ err' = r
               /\ pc' = "fini"
               /\ mon' = mon
    /\ UNCHANGED <<argv0, opt, dpll, need_nl, nl_open, init_calls, bad_use,
                   nlh, has_id, has_device_id, id, device_id, why, sent,
                   ret, iters, stalled, jctx, jstack>>
    /\ UNCHANGED <<monitor_running, sig_installed, msg, handler, ctx, mres,
                   out, conv>>

InitMsg ==
    /\ argv0 = <<>>
    /\ conv = NoVal
    /\ pc = "callback"
    /\ msg \in Messages
    /\ handler \in Handlers
    /\ mpc = "count"
    /\ BaseInit

NextMsg ==
    \/ MsgCount \/ MsgCollect \/ MsgRender \/ MsgCleanup \/ MsgReturn
    \/ MonExit \/ MainFini

SpecMsg == InitMsg /\ [][NextMsg]_vars

-----------------------------------------------------------------------------
(* Conversions between labels and codes.  conv holds one value and the     *)
(* conversions applied to it so far.                                       *)

dpll_type_name(type) ==
    CASE type = 1 -> "pps"
      [] type = 2 -> "eec"
      [] OTHER -> "unknown"

\* variant: the last case of the switch is missing
dpll_pin_type_name_short(type) ==
    CASE type = 1 -> "mux"
      [] type = 2 -> "ext"
      [] type = 3 -> "synce-eth-port"
      [] type = 4 -> "int-oscillator"
      [] OTHER -> "unknown"

dpll_pin_type_name(type) ==
    CASE type = 1 -> "mux"
      [] type = 2 -> "ext"
      [] type = 3 -> "synce-eth-port"
      [] type = 4 -> "int-oscillator"
      [] type = 5 -> "gnss"
      [] OTHER -> "unknown"

dpll_pin_state_name(state) ==
    CASE state = 1 -> "connected"
      [] state = 2 -> "disconnected"
      [] state = 3 -> "selectable"
      [] OTHER -> "unknown"

dpll_pin_direction_name(direction) ==
    CASE direction = 1 -> "input"
      [] direction = 2 -> "output"
      [] OTHER -> "unknown"

EnumKinds == {"pin-state", "pin-direction", "device-type", "pin-type"}

\* the name function DPLL_PR_ENUM_STR is given for an attribute of kind k
enum_name(k, code) ==
    CASE k = "pin-state" -> dpll_pin_state_name(code)
      [] k = "pin-direction" -> dpll_pin_direction_name(code)
      [] k = "device-type" -> dpll_type_name(code)
      [] k = "pin-type" -> dpll_pin_type_name(code)

\* the cursor standing on the single token tok
OneToken(tok) == [argc |-> 1, argv |-> <<tok>>, json_output |-> FALSE]

\* what the argument loop makes of the label tok for kind k: [err, val]
enum_parse(k, tok) ==
    CASE k = "pin-state" -> dpll_parse_state(OneToken(tok))
      [] k = "pin-direction" -> dpll_parse_direction(OneToken(tok))
      [] k = "device-type" ->
            IF device_type_code(tok) # 0
            THEN [err |-> 0, val |-> device_type_code(tok)]
            ELSE [err |-> -EINVAL, val |-> 0]
      [] k = "pin-type" ->
            IF pin_type_code(tok) # 0
            THEN [err |-> 0, val |-> pin_type_code(tok)]
            ELSE [err |-> -EINVAL, val |-> 0]

MaxCode == 7

LabelInputs ==
    {"connected", "disconnected", "selectable", "input", "output", "pps",
     "eec", "mux", "ext", "synce-eth-port", "int-oscillator", "gnss",
     "unknown", "bogus"}

\* a label typed on the command line, or a code received from the kernel
EnumInputs ==
    {[kind |-> "enum", enum |-> k, from |-> "label", label0 |-> l, code0 |-> 0,
      label |-> l, code |-> 0, err |-> 0, trail |-> <<>>] :
        k \in EnumKinds, l \in LabelInputs}
    \cup
    {[kind |-> "enum", enum |-> k, from |-> "code", label0 |-> "", code0 |-> c,
      label |-> "", code |-> c, err |-> 0, trail |-> <<>>] :
        k \in EnumKinds, c \in 0..MaxCode}

\* does conv currently hold a label (and not a code)
HoldsLabel ==
    IF conv.trail = <<>> THEN conv.from = "label"
    ELSE conv.trail[Len(conv.trail)] = "name"

ConvFrame == UNCHANGED <<cliVars, monVars, msgVars, out>>

\* the label is parsed as the argument loop parses it
ConvParse ==
    /\ pc = "convert" /\ conv.kind = "enum"
    /\ HoldsLabel /\ Len(conv.trail) < 2
    /\ LET r == enum_parse(conv.enum, conv.label) IN
       conv' = [conv EXCEPT !.code = r.val, !.err = r.err,
                            !.trail = Append(@, "parse")]
    /\ ConvFrame

\* the code is printed as DPLL_PR_ENUM_STR prints it
ConvName ==
    /\ pc = "convert" /\ conv.kind = "enum"
    /\ ~HoldsLabel /\ conv.err = 0 /\ Len(conv.trail) < 2
    /\ conv' = [conv EXCEPT !.label = enum_name(conv.enum, conv.code),
                            !.trail = Append(@, "name")]
    /\ ConvFrame

\* Signed attributes.  A payload is its bytes in memory order (least
\* significant first); an __s64 is its eight bytes.

MaxPayload == 9

ByteValues == {1, 255}

sizeof_s32 == 4

sizeof_s64 == 8

\* the conversion of an __s32 to the __s64 that is returned
s32_to_s64(b) == b \o [i \in 1..4 |-> IF b[4] >= 128 THEN 255 ELSE 0]

\* memcpy(&tmp, payload, n) from a payload followed in memory by the bytes
\* junk: [bytes, beyond], beyond counting the bytes taken from junk
memcpy_payload(payload, junk, n) ==
    [bytes |-> SubSeq(payload \o junk, 1, n),
     beyond |-> IF n > Len(payload) THEN n - Len(payload) ELSE 0]

\* mnl_attr_get_sint: [value, beyond]
mnl_attr_get_sint(payload, junk) ==
    IF Len(payload) = sizeof_s32
    THEN [value |-> s32_to_s64(memcpy_payload(payload, junk, sizeof_s32).bytes),
          beyond |-> 0]
    ELSE LET m == memcpy_payload(payload, junk, sizeof_s64) IN
         [value |-> m.bytes, beyond |-> m.beyond]

\* the phase-offset of a parent-device entry: [value, beyond]
parent_phase_offset(payload, junk) ==
    LET m == memcpy_payload(payload, junk, sizeof_s64) IN
    [value |-> m.bytes, beyond |-> m.beyond]

SintFields == {"fractional-frequency-offset", "phase-offset"}

\* an attribute of either field with a payload of any length
SintInputs ==
    {[kind |-> "sint", field |-> f, payload |-> p, done |-> FALSE,
      present |-> FALSE, value |-> <<>>, beyond |-> 0] :
        f \in SintFields, p \in SeqsUpTo(ByteValues, MaxPayload)}

\* the bytes that follow a payload shorter than an __s64
Junk(payload) ==
    IF Len(payload) >= sizeof_s64 THEN {<<>>}
    ELSE [1..(sizeof_s64 - Len(payload)) -> {0, 170}]

\* DPLL_PR_SINT(tb, DPLL_A_PIN_FRACTIONAL_FREQUENCY_OFFSET, ...)
ConvSint ==
    /\ pc = "convert" /\ conv.kind = "sint" /\ ~conv.done
    /\ conv.field = "fractional-frequency-offset"
    /\ \E junk \in Junk(conv.payload) :
          LET r == mnl_attr_get_sint(conv.payload, junk) IN
          conv' = [conv EXCEPT !.done = TRUE, !.present = TRUE,
                               !.value = r.value, !.beyond = r.beyond]
    /\ ConvFrame

\* the DPLL_A_PIN_PHASE_OFFSET branch of the parent-device loop
ConvPhaseOffset ==
    /\ pc = "convert" /\ conv.kind = "sint" /\ ~conv.done
    /\ conv.field = "phase-offset"
    /\ \E junk \in Junk(conv.payload) :
          LET r == parent_phase_offset(conv.payload, junk) IN
          conv' = [conv EXCEPT !.done = TRUE, !.present = TRUE,
                               !.value = r.value, !.beyond = r.beyond]
    /\ ConvFrame

\* the label dpll_device_print_attrs prints for DPLL_A_PHASE_OFFSET_MONITOR
phase_offset_monitor_name(value) == IF value # 0 THEN "enable" ELSE "disable"

\* the attribute with any u32 value, printed in text or in JSON
MonitorInputs ==
    {[kind |-> "phase-offset-monitor", value |-> v, json |-> j, done |-> FALSE,
      shown |-> ""] : v \in 0..MaxCode, j \in BOOLEAN}

\* print_string(PRINT_ANY, "phase-offset-monitor", ...)
ConvPhaseOffsetMonitor ==
    /\ pc = "convert" /\ conv.kind = "phase-offset-monitor" /\ ~conv.done
    /\ conv' = [conv EXCEPT !.done = TRUE,
                            !.shown = phase_offset_monitor_name(conv.value)]
    /\ ConvFrame

MaxCapBits == 5

DPLL_PIN_CAPABILITIES_DIRECTION_CAN_CHANGE == 1

DPLL_PIN_CAPABILITIES_PRIORITY_CAN_CHANGE == 2

DPLL_PIN_CAPABILITIES_STATE_CAN_CHANGE == 4

\* caps & bit, for a bit that is a power of two
caps_and(caps, bit) == ((caps \div bit) % 2) * bit

\* dpll_pin_capabilities_name: the names it writes, in order
dpll_pin_capabilities_name(capabilities) ==
    (IF caps_and(capabilities, DPLL_PIN_CAPABILITIES_STATE_CAN_CHANGE) # 0
     THEN <<"state-can-change">> ELSE <<>>)
    \o (IF caps_and(capabilities, DPLL_PIN_CAPABILITIES_PRIORITY_CAN_CHANGE) # 0
        THEN <<"priority-can-change">> ELSE <<>>)
    \o (IF caps_and(capabilities, DPLL_PIN_CAPABILITIES_DIRECTION_CAN_CHANGE) # 0
        THEN <<"direction-can-change">> ELSE <<>>)

\* variant: the JSON array lists the names by ascending bit
pin_capabilities_json_ascending(caps) ==
    (IF caps_and(caps, DPLL_PIN_CAPABILITIES_DIRECTION_CAN_CHANGE) # 0
     THEN <<"direction-can-change">> ELSE <<>>)
    \o (IF caps_and(caps, DPLL_PIN_CAPABILITIES_PRIORITY_CAN_CHANGE) # 0
        THEN <<"priority-can-change">> ELSE <<>>)
    \o (IF caps_and(caps, DPLL_PIN_CAPABILITIES_STATE_CAN_CHANGE) # 0
        THEN <<"state-can-change">> ELSE <<>>)

\* the elements of the JSON array "capabilities" of dpll_pin_print_attrs
pin_capabilities_json(caps) ==
    (IF caps_and(caps, DPLL_PIN_CAPABILITIES_STATE_CAN_CHANGE) # 0
     THEN <<"state-can-change">> ELSE <<>>)
    \o (IF caps_and(caps, DPLL_PIN_CAPABILITIES_PRIORITY_CAN_CHANGE) # 0
        THEN <<"priority-can-change">> ELSE <<>>)
    \o (IF caps_and(caps, DPLL_PIN_CAPABILITIES_DIRECTION_CAN_CHANGE) # 0
        THEN <<"direction-can-change">> ELSE <<>>)

\* DPLL_A_PIN_CAPABILITIES with any value of MaxCapBits bits
CapsInputs ==
    {[kind |-> "capabilities", caps |-> v, json |-> j, done |-> FALSE,
      names |-> <<>>] : v \in 0..(2^MaxCapBits - 1), j \in BOOLEAN}

\* the DPLL_A_PIN_CAPABILITIES branch of dpll_pin_print_attrs
ConvCapabilities ==
    /\ pc = "convert" /\ conv.kind = "capabilities" /\ ~conv.done
    /\ conv' = [conv EXCEPT !.done = TRUE,
                  !.names = IF conv.json THEN pin_capabilities_json(conv.caps)
                            ELSE dpll_pin_capabilities_name(conv.caps)]
    /\ ConvFrame

MaxMilli == 1200   \* temperatures of every magnitude up to this one are drawn

INT32_MAX == 2147483647
INT32_MIN == -2147483647 - 1

\* the / and % of C on an int and a positive divisor: the quotient is
\* truncated toward zero and the remainder has the sign of the dividend
c_div(a, b) ==
    IF a < 0 /\ a % b # 0 THEN (a \div b) + 1 ELSE a \div b

c_rem(a, b) ==
    IF a < 0 /\ a % b # 0 THEN (a % b) - b ELSE a % b

\* abs() of <stdlib.h>
c_abs(a) == IF a < 0 THEN 0 - a ELSE a

\* printf("%d.%03d", i, f): a minus sign when i is negative, the digits of
\* |i|, a point, f in three digits (f is never negative here)
printf_d_03d(i, f) == [minus |-> i < 0, whole |-> c_abs(i), frac |-> f]

\* the text branch of DPLL_A_TEMP: temp_int = temp / 1000,
\* temp_frac = abs(temp % 1000)
temperature_text(temp) ==
    printf_d_03d(c_div(temp, 1000), c_abs(c_rem(temp, 1000)))

\* the s32 temperatures drawn: the small ones of either sign and the ends
\* of the range
Temperatures ==
    ((0 - MaxMilli)..MaxMilli)
        \cup {INT32_MIN, INT32_MIN + 1, INT32_MAX, INT32_MAX - 1,
              0 - 1000000, 999999, 0 - 25500, 25500}

TempInputs ==
    {[kind |-> "temperature", temp |-> t, json |-> j, done |-> FALSE,
      text |-> printf_d_03d(0, 0), milli |-> 0] :
        t \in Temperatures, j \in BOOLEAN}

\* the DPLL_A_TEMP branch of dpll_device_print_attrs: in JSON the number
\* temp / 1000.0 (kept in thousandths), in text the line `D.mmm C`
ConvTemperature ==
    /\ pc = "convert" /\ conv.kind = "temperature" /\ ~conv.done
    /\ conv' = [conv EXCEPT !.done = TRUE,
                  !.text = IF conv.json THEN @ ELSE temperature_text(conv.temp),
                  !.milli = IF conv.json THEN conv.temp ELSE @]
    /\ ConvFrame

ConvInputs ==
    EnumInputs \cup SintInputs \cup MonitorInputs \cup CapsInputs \cup TempInputs

InitConv ==
    /\ argv0 = <<>>
    /\ pc = "convert"
    /\ msg = <<>>
    /\ handler = "none"
    /\ mpc = "idle"
    /\ conv \in ConvInputs
    /\ BaseInit

NextConv ==
    \/ ConvParse \/ ConvName \/ ConvSint \/ ConvPhaseOffset
    \/ ConvPhaseOffsetMonitor \/ ConvCapabilities \/ ConvTemperature

SpecConv == InitConv /\ [][NextConv]_vars

-----------------------------------------------------------------------------

Next ==
    \/ MainOptions \/ MainInit \/ MainFini
    \/ DpllCmd \/ CmdDevice \/ CmdPin
    \/ DeviceShowArg \/ DeviceSetArg \/ DeviceIdGetArg
    \/ PinShowArg \/ PinIdGetArg \/ PinSetArg
    \/ PinSetParentDeviceArg \/ PinSetParentDeviceEnd
    \/ DeviceShowRun \/ DeviceSetRun \/ DeviceIdGetRun
    \/ PinShowRun \/ PinSetRun \/ PinIdGetRun
    \/ CmdMonitorSetup \/ Signal \/ MonLoopCheck \/ MonPollEnter
    \/ MonPollReturn \/ MonRecv \/ MonExit

Spec == Init /\ [][Next]_vars

-----------------------------------------------------------------------------
(* Properties                                                              *)

HelpFirst == Len(argv0) > 0 /\ argv0[1] = "help"

HelpSecond == Len(argv0) > 1 /\ argv0[1] \in Objects /\ argv0[2] = "help"

\* C1: when the first token is help, or the second token is help after an
\* object token, dpll_init is never called and the socket is never open;
\* `help`, `device help` and `pin help` print their usage and exit with 0.
C1_HelpOffline ==
    /\ (HelpFirst \/ HelpSecond) => (init_calls = 0 /\ ~nl_open)
    /\ (pc = "exit" /\ opt = "run" /\ HelpFirst)
          => (ret = 0 /\ errlog = <<"usage">>)
    /\ (pc = "exit" /\ opt = "run" /\ HelpSecond /\ argv0[1] \in {"device", "pin"})
          => (ret = 0 /\ errlog = <<argv0[1] \o " usage">>)

C1_Witness ==
    /\ pc = "exit" /\ opt = "run" /\ argv0 = <<"pin", "help">>
    /\ ret = 0 /\ init_calls = 0 /\ errlog = <<"pin usage">>

\* C2: when the notification loop ended because the loop condition saw the
\* flag cleared by the signal handler, cmd_monitor returns 0 and the process
\* exits with status 0.
C2_MonitorCancelExitsZero ==
    /\ (pc = "fini" /\ mon.exit_kind = "flag") => err = 0
    /\ (pc = "exit" /\ mon.exit_kind = "flag") => ret = 0

\* C3: after the handler cleared the flag the loop enters poll at most once
\* more, and no iteration begins with the flag already cleared.
C3_CancelWithinOneTick ==
    /\ mon.after_cancel <= 1
    /\ mon.late_iters = 0

C3_Witness ==
    /\ pc = "mon_exit" /\ mon.exit_kind = "flag"
    /\ mon.after_cancel = 1 /\ monitor_running = 0

ArgLoopPcs == {"device_show", "device_set", "device_id_get", "pin_show",
               "pin_set", "pin_id_get", "pin_set_parent_device"}

\* C5: no pass of an argument loop leaves the cursor where it was without
\* returning an error, the number of passes is at most the number of tokens
\* after the verb, and a verb ends with a request sent or with an error.
C5_ArgLoopTerminates ==
    /\ ~stalled
    /\ iters > 0 => iters <= Len(argv0) - 2
    /\ iters > 0 => iters <= (Len(argv0) - 2 - dpll.argc)
                             + (IF err # 0 THEN 1 ELSE 0)
    /\ (pc = "exit" /\ iters > 0) => (ret = 1 \/ Len(sent) = 1)

\* two parent-device blocks, the first one left by the `break` pass
TwoParentDevices ==
    <<"pin", "set", "id", "3",
      "parent-device", "0", "direction", "input", "prio", "10",
      "state", "connected",
      "parent-device", "1", "direction", "output">>

C5_Witness ==
    /\ pc = "exit" /\ argv0 = TwoParentDevices
    /\ iters = 8 /\ Len(sent) = 1 /\ ret = 0

\* positions of the top-level attributes of type A in the message
Occurrences(A) == {i \in 1..Len(msg) : msg[i] = A}

NthOccurrence(A, j) ==
    CHOOSE i \in Occurrences(A) :
        Cardinality({x \in Occurrences(A) : x <= i}) = j

WireOrder(A) == [j \in 1..Cardinality(Occurrences(A)) |-> NthOccurrence(A, j)]

\* C4: for each of the five multi attribute types A occurring N times in a
\* pin message, the storage allocated has N slots, no write falls outside
\* it, after the collect pass the context holds the N occurrences of A in
\* wire order and this is what the renderer walks; nothing of another type
\* is stored.
C4_MultiAttrFaithful ==
    /\ ~mres.oob
    /\ \A k \in 1..5 :
        LET A == MultiAttr[k]
            N == Cardinality(Occurrences(A)) IN
        /\ ctx[k].alloc => Len(ctx[k].entries) = N
        /\ \A i \in 1..Len(ctx[k].entries) :
              ctx[k].entries[i] # 0 => msg[ctx[k].entries[i]] = A
        /\ mpc = "render" => (ctx[k].count = N /\ ctx[k].entries = WireOrder(A))
        /\ mres.rendered => mres.seen[k] = WireOrder(A)

C4_Witness ==
    /\ mres.rendered /\ handler = "cmd_monitor_cb"
    /\ msg = <<"DPLL_A_PIN_PARENT_DEVICE", "DPLL_A_PIN_FREQUENCY",
               "DPLL_A_PIN_PARENT_DEVICE">>
    /\ mres.seen[1] = <<1, 3>>

NestTypes == {"DPLL_A_PIN_PARENT_DEVICE", "DPLL_A_PIN_PARENT_PIN",
              "DPLL_A_PIN_REFERENCE_SYNC"}

SubKeywordTypes == {"DPLL_A_PIN_DIRECTION", "DPLL_A_PIN_PRIO", "DPLL_A_PIN_STATE"}

\* the sub-keywords of a nested block, by its opener
SubKeywords(o) ==
    IF o = "parent-device" THEN {"direction", "prio", "state"} ELSE {"state"}

OpenerAt == {i \in 3..Len(argv0) : argv0[i] \in Openers}

\* the first n pairs after the block id at i+1 are sub-keyword pairs
SubRun(i, n) ==
    \A j \in 0..(n - 1) :
        /\ i + 3 + 2 * j <= Len(argv0)
        /\ argv0[i + 2 + 2 * j] \in SubKeywords(argv0[i])

SubRunLen(i) == CHOOSE n \in 0..Len(argv0) : SubRun(i, n) /\ ~SubRun(i, n + 1)

ExpectedSub(kw, v) ==
    CASE kw = "direction" ->
            Attr("DPLL_A_PIN_DIRECTION", 4, IF v = "input" THEN 1 ELSE 2, "")
      [] kw = "prio" -> Attr("DPLL_A_PIN_PRIO", 4, NumValue(v), "")
      [] kw = "state" ->
            Attr("DPLL_A_PIN_STATE", 4,
                 CASE v = "connected" -> 1 [] v = "disconnected" -> 2
                   [] OTHER -> 3, "")

ExpectedNest(i) ==
    [type |-> CASE argv0[i] = "parent-device" -> "DPLL_A_PIN_PARENT_DEVICE"
                [] argv0[i] = "parent-pin" -> "DPLL_A_PIN_PARENT_PIN"
                [] OTHER -> "DPLL_A_PIN_REFERENCE_SYNC",
     len |-> 0, val |-> 0, str |-> "",
     sub |-> <<Attr(IF argv0[i] = "reference-sync" THEN "DPLL_A_PIN_ID"
                    ELSE "DPLL_A_PIN_PARENT_ID", 4, NumValue(argv0[i + 1]), "")>>
             \o [j \in 1..SubRunLen(i) |->
                    ExpectedSub(argv0[i + 2 * j], argv0[i + 2 * j + 1])]]

NthOpener(j) ==
    CHOOSE i \in OpenerAt : Cardinality({x \in OpenerAt : x <= i}) = j

ExpectedNests == [j \in 1..Cardinality(OpenerAt) |-> ExpectedNest(NthOpener(j))]

IsNest(a) == a.type \in NestTypes

\* C6: a PIN_SET request that was sent carries one nest per opener, in token
\* order, each holding the block id and then the sub-keyword attributes that
\* followed the opener; no direction, prio or state is at top level; the two
\* parent-device blocks of TwoParentDevices are sent exactly as given.
C6_NestedBlocks ==
    /\ (sent # <<>> /\ sent[1].cmd = "DPLL_CMD_PIN_SET") =>
          /\ SelectSeq(sent[1].attrs, IsNest) = ExpectedNests
          /\ \A n \in 1..Len(sent[1].attrs) :
                sent[1].attrs[n].type \notin SubKeywordTypes
          /\ ~sent[1].open
    /\ (pc = "fini" /\ argv0 = TwoParentDevices) =>
          /\ Len(sent) = 1
          /\ sent[1].attrs =
               << Attr("DPLL_A_PIN_ID", 4, 3, ""),
                  [Attr("DPLL_A_PIN_PARENT_DEVICE", 0, 0, "") EXCEPT !.sub =
                     << Attr("DPLL_A_PIN_PARENT_ID", 4, 0, ""),
                        Attr("DPLL_A_PIN_DIRECTION", 4, 1, ""),
                        Attr("DPLL_A_PIN_PRIO", 4, 10, ""),
                        Attr("DPLL_A_PIN_STATE", 4, 1, "") >>],
                  [Attr("DPLL_A_PIN_PARENT_DEVICE", 0, 0, "") EXCEPT !.sub =
                     << Attr("DPLL_A_PIN_PARENT_ID", 4, 1, ""),
                        Attr("DPLL_A_PIN_DIRECTION", 4, 2, "") >>] >>

C6_Witness ==
    /\ pc = "exit" /\ argv0 = TwoParentDevices /\ ret = 0
    /\ Len(sent) = 1
    /\ Len(SelectSeq(sent[1].attrs, IsNest)) = 2

TopLevelPrioState == <<"pin", "set", "id", "0", "prio", "10", "state", "connected">>

TopLevelDirection == <<"pin", "set", "id", "0", "direction", "input">>

\* C7: `pin set id 0 prio 10 state connected` and `pin set id 0 direction
\* input` are parsed without an argument error and send one PIN_SET request
\* with the pin id and the top-level attributes.
C7_TopLevelPinKeywords ==
    /\ (pc = "fini" /\ argv0 = TopLevelPrioState) =>
          /\ why = ""
          /\ Len(sent) = 1
          /\ sent[1].attrs = << Attr("DPLL_A_PIN_ID", 4, 0, ""),
                                Attr("DPLL_A_PIN_PRIO", 4, 10, ""),
                                Attr("DPLL_A_PIN_STATE", 4, 1, "") >>
    /\ (pc = "fini" /\ argv0 = TopLevelDirection) =>
          /\ why = ""
          /\ Len(sent) = 1
          /\ sent[1].attrs = << Attr("DPLL_A_PIN_ID", 4, 0, ""),
                                Attr("DPLL_A_PIN_DIRECTION", 4, 1, "") >>

\* the value-taking keywords of each argument loop
ValueKeywords(p) ==
    CASE p = "device_show" -> {"id"}
      [] p = "device_set" -> {"id", "phase-offset-monitor", "phase-offset-avg-factor"}
      [] p = "device_id_get" -> {"module-name", "clock-id", "type"}
      [] p = "pin_show" -> {"id", "device"}
      [] p = "pin_id_get" -> {"module-name", "clock-id", "board-label",
                              "panel-label", "package-label", "type"}
      [] p = "pin_set" -> {"id", "frequency", "phase-adjust", "esync-frequency",
                           "parent-device", "parent-pin", "reference-sync"}
      [] p = "pin_set_parent_device" -> {"direction", "prio", "state"}
      [] OTHER -> {}

\* a parent-pin or reference-sync block with a valid id is next, followed
\* by `state`
StateBlockNext ==
    /\ pc = "pin_set" /\ dpll.argc >= 3
    /\ dpll.argv[1] \in {"parent-pin", "reference-sync"}
    /\ ~get_u32(dpll.argv[2]).fail
    /\ dpll.argv[3] = "state"

\* the pass ended with the given error; the request was not touched (or,
\* for a state block, holds the new nest with its id only); nothing is sent
FailsWith(kind, inBlock) ==
    /\ pc' = "fini" /\ err' = -EINVAL /\ why' = kind
    /\ sent = <<>> /\ sent' = <<>>
    /\ IF inBlock
       THEN /\ Len(nlh'.attrs) = Len(nlh.attrs) + 1
            /\ Len(nlh'.attrs[Len(nlh'.attrs)].sub) = 1
       ELSE nlh' = nlh

C8_Step ==
    /\ (pc \in ArgLoopPcs /\ dpll.argc = 1
            /\ dpll.argv[1] \in ValueKeywords(pc))
          => FailsWith(MissingArgument, FALSE)
    /\ (StateBlockNext /\ dpll.argc = 3) => FailsWith(MissingArgument, TRUE)

\* C8: when a value-taking keyword of a verb, a nested-block opener or a
\* sub-keyword is the last token, the pass returns -EINVAL with the
\* missing-argument message, appends no attribute for the keyword and sends
\* nothing; the process exits with status 1.
C8_MissingValue ==
    /\ [][C8_Step]_vars
    /\ [](why = MissingArgument => (sent = <<>> /\ (pc = "exit" => ret = 1)))

C8_Witness ==
    /\ pc = "exit" /\ why = MissingArgument /\ ret = 1
    /\ argv0 = <<"pin", "set", "id", "1", "reference-sync", "1", "state">>
    /\ Len(nlh.attrs) = 2

IdKeywordAbsent == \A i \in 3..Len(argv0) : argv0[i] # "id"

IsSetVerb ==
    /\ Len(argv0) >= 2
    /\ argv0[1] \in {"device", "pin"}
    /\ argv0[2] = "set"

\* C9: device set and pin set without an `id` keyword send nothing and exit
\* with status 1; the id check is made once the loop consumed every token,
\* so its message is never printed after an argument error.
C9_RequiredIdOnSet ==
    /\ (IsSetVerb /\ IdKeywordAbsent) =>
          /\ sent = <<>>
          /\ (pc = "exit" /\ opt = "run") => ret = 1
    /\ (\E n \in 1..Len(errlog) : errlog[n] = IdRequired) =>
          (errlog = <<IdRequired>> /\ dpll.argc = 0)
    /\ (IsSetVerb /\ pc = "fini" /\ ~has_id /\ why \notin {IdRequired}) =>
          (err # 0 /\ why # "" /\ errlog = <<why>>)

C9_Witness ==
    /\ pc = "exit" /\ argv0 = <<"pin", "set", "frequency", "0">>
    /\ ret = 1 /\ sent = <<>> /\ errlog = <<IdRequired>>
    /\ Len(nlh.attrs) = 1

\* the enum-valued keywords of each argument loop and their labels
EnumLabels(p, kw) ==
    CASE p = "pin_set_parent_device" /\ kw = "direction" -> {"input", "output"}
      [] p = "pin_set_parent_device" /\ kw = "state" ->
            {"connected", "disconnected", "selectable"}
      [] p = "device_id_get" /\ kw = "type" -> {"pps", "eec"}
      [] p = "pin_id_get" /\ kw = "type" ->
            {"mux", "ext", "synce-eth-port", "int-oscillator", "gnss"}
      [] p = "device_set" /\ kw = "phase-offset-monitor" ->
            {"true", "false", "1", "0"}
      [] OTHER -> {}

C10_Step ==
    /\ (pc \in ArgLoopPcs /\ dpll.argc >= 2
            /\ EnumLabels(pc, dpll.argv[1]) # {}
            /\ dpll.argv[2] \notin EnumLabels(pc, dpll.argv[1]))
          => FailsWith(InvalidArgument, FALSE)
    /\ (StateBlockNext /\ dpll.argc >= 4
            /\ dpll.argv[4] \notin {"connected", "disconnected", "selectable"})
          => FailsWith(InvalidArgument, TRUE)

\* C10: an enum-valued keyword followed by a token that is not one of its
\* labels makes the pass return -EINVAL with the invalid-value message,
\* appends no attribute for it and sends nothing; the exit status is 1.
C10_UnknownEnumLabel ==
    /\ [][C10_Step]_vars
    /\ [](why = InvalidArgument => (sent = <<>> /\ (pc = "exit" => ret = 1)))

C10_Witness ==
    /\ pc = "exit" /\ why = InvalidArgument /\ ret = 1
    /\ argv0 = <<"pin", "set", "id", "1", "parent-device", "0", "state", "bogus">>
    /\ Len(nlh.attrs) = 2 /\ Len(nlh.attrs[2].sub) = 1

IsShowVerb ==
    /\ Len(argv0) >= 2
    /\ argv0[1] \in {"device", "pin"}
    /\ argv0[2] = "show"

IdSupplied == \E i \in 3..Len(argv0) : argv0[i] = "id"

\* the value given with the last `id` keyword
LastIdValue ==
    LET i == CHOOSE i \in 3..Len(argv0) :
                 argv0[i] = "id" /\ \A k \in (i + 1)..Len(argv0) : argv0[k] # "id"
    IN NumValue(argv0[i + 1])

ArrayTokens == {"[device", "[pin", "]"}

\* the positions of out strictly between the first and the last
Inner(o) == 2..(Len(o) - 1)

InErrlog(m) == \E n \in 1..Len(errlog) : errlog[n] = m

UsageTexts == {"usage", "device usage", "pin usage"}

\* what is written to stderr without the command failing
NoticeTexts == UsageTexts \cup {"Unknown notification command"}

\* C12: when the dispatched command returns, the exit status is 0 if it
\* returned 0 and 1 otherwise; an unknown object, an unknown verb, an
\* argument error, a failed dpll_init and any other reported failure (every
\* message on stderr but usage and the unknown-notification notice) end in
\* status 1; -V exits 0 having printed the version only, with no dpll_init and
\* no dispatch; an unknown option prints usage and exits 1.
C12_ExitCodes ==
    /\ [][pc = "fini" => (ret' = (IF err = 0 THEN 0 ELSE 1))]_vars
    /\ []((pc = "exit" /\ opt = "run") =>
            /\ InErrlog("Object not found") => ret = 1
            /\ InErrlog("Command not found") => ret = 1
            /\ why # "" => ret = 1
            /\ InErrlog("Failed to connect to DPLL Netlink")
                  => (ret = 1 /\ sent = <<>> /\ init_calls = 1)
            /\ (\E n \in 1..Len(errlog) : errlog[n] \notin NoticeTexts) => ret = 1
            /\ err # 0 => ret = 1)
    /\ [](opt = "V" =>
            /\ pc = "exit" /\ ret = 0 /\ out = <<"version">>
            /\ init_calls = 0 /\ ~nl_open /\ sent = <<>> /\ errlog = <<>>
            /\ dpll.argc = 0 /\ dpll.argv = <<>>)
    /\ [](opt = "bad" =>
            /\ pc = "exit" /\ ret = 1 /\ out = <<>>
            /\ errlog = <<"Unknown option.", "usage">>
            /\ init_calls = 0 /\ sent = <<>>)

C12_Witness ==
    /\ pc = "exit" /\ opt = "run" /\ ret = 1 /\ err = -ENOENT
    /\ argv0 = <<"device", "bogus">> /\ errlog = <<"Command not found">>

\* the command lines that dpll_cmd, cmd_device and cmd_pin answer with usage
ResolvesToUsage ==
    \/ HelpFirst
    \/ argv0 = <<>>
    \/ (HelpSecond /\ argv0[1] \in {"device", "pin"})
    \/ argv0 \in {<<"device">>, <<"pin">>}

UsagePrinted == \E n \in 1..Len(errlog) : errlog[n] \in UsageTexts

\* C13: every command line the dispatcher answers with usage (first token
\* help, no token at all, an object followed by help, an object followed by
\* no verb) prints the usage text and exits with 0, also when dpll_init
\* would fail.
C13_UsageNeedsNoSocket ==
    (pc = "exit" /\ opt = "run" /\ ResolvesToUsage)
        => (ret = 0 /\ UsagePrinted)

\* the labels of the enumerators of each kind, by code
DeclaredLabels(k) ==
    CASE k = "pin-state" -> <<"connected", "disconnected", "selectable">>
      [] k = "pin-direction" -> <<"input", "output">>
      [] k = "device-type" -> <<"pps", "eec">>
      [] k = "pin-type" ->
            <<"mux", "ext", "synce-eth-port", "int-oscillator", "gnss">>

IsDeclaredLabel(k, l) ==
    \E c \in 1..Len(DeclaredLabels(k)) : DeclaredLabels(k)[c] = l

\* C14: for pin state, pin direction, device type and pin type, a declared
\* label parsed and then named gives the label back; a declared code named
\* and then parsed gives the code back; the code of the c-th declared label
\* is c; a code outside the declared set is named "unknown".
C14_EnumRoundTrip ==
    conv.kind = "enum" =>
        /\ (conv.from = "label" /\ IsDeclaredLabel(conv.enum, conv.label0)
              /\ Len(conv.trail) >= 1)
              => (conv.err = 0 /\ conv.code \in 1..Len(DeclaredLabels(conv.enum))
                  /\ DeclaredLabels(conv.enum)[conv.code] = conv.label0)
        /\ (conv.from = "label" /\ IsDeclaredLabel(conv.enum, conv.label0)
              /\ conv.trail = <<"parse", "name">>)
              => conv.label = conv.label0
        /\ (conv.from = "code" /\ conv.code0 \in 1..Len(DeclaredLabels(conv.enum))
              /\ Len(conv.trail) >= 1)
              => conv.label = DeclaredLabels(conv.enum)[conv.code0]
        /\ (conv.from = "code" /\ conv.code0 \in 1..Len(DeclaredLabels(conv.enum))
              /\ conv.trail = <<"name", "parse">>)
              => (conv.err = 0 /\ conv.code = conv.code0)
        /\ (conv.from = "code" /\ conv.code0 \notin 1..Len(DeclaredLabels(conv.enum))
              /\ Len(conv.trail) >= 1)
              => conv.label = "unknown"

C14_Witness ==
    /\ conv.kind = "enum" /\ conv.enum = "pin-type" /\ conv.from = "code"
    /\ conv.code0 = 5 /\ conv.trail = <<"name", "parse">>
    /\ conv.label = "gnss" /\ conv.code = 5

\* C15: a signed field (fractional-frequency-offset, phase-offset of a
\* parent-device entry) with a 4-byte payload is rendered as the
\* sign-extended 32-bit value, with an 8-byte payload as the 64-bit value,
\* with any other length it is absent; no byte beyond the payload is read.
C15_SignedWidth ==
    (conv.kind = "sint" /\ conv.done) =>
        /\ conv.beyond = 0
        /\ Len(conv.payload) = 4
              => (conv.present /\ conv.value = s32_to_s64(conv.payload))
        /\ Len(conv.payload) = 8
              => (conv.present /\ conv.value = conv.payload)
        /\ Len(conv.payload) \notin {4, 8} => ~conv.present

IdLines == {"device id", "pin id"}

AttrLines == {"device attrs", "pin attrs"}

\* C16: a reply without the id attribute is discarded: none of its
\* attributes is rendered, so every rendered entity starts with its id; and
\* a show of a single entity that returned 0 has rendered that entity's id.
C16_ReplyWithoutId ==
    (IsShowVerb /\ pc = "fini" /\ why = "") =>
        /\ \A n \in 1..Len(out) :
              out[n] \in AttrLines => (n > 1 /\ out[n - 1] \in IdLines)
        /\ (IdSupplied /\ err = 0) => \E n \in 1..Len(out) : out[n] \in IdLines

NtfTag(cmd) ==
    CASE cmd = "DPLL_CMD_DEVICE_CREATE_NTF" -> "[DEVICE_CREATE] "
      [] cmd = "DPLL_CMD_DEVICE_CHANGE_NTF" -> "[DEVICE_CHANGE] "
      [] cmd = "DPLL_CMD_DEVICE_DELETE_NTF" -> "[DEVICE_DELETE] "
      [] cmd = "DPLL_CMD_PIN_CREATE_NTF" -> "[PIN_CREATE] "
      [] cmd = "DPLL_CMD_PIN_CHANGE_NTF" -> "[PIN_CHANGE] "
      [] cmd = "DPLL_CMD_PIN_DELETE_NTF" -> "[PIN_DELETE] "

\* what one delivered message is expected to put on stdout
NtfExpected(n) ==
    IF n.cmd \in DeviceNtf THEN <<NtfTag(n.cmd), "device id", "device attrs">>
    ELSE IF n.cmd \in PinNtf /\ n.alloc_ok
    THEN <<NtfTag(n.cmd), "pin id", "pin attrs">>
    ELSE <<>>

Banner == IF dpll.json_output THEN <<>> ELSE <<"Monitoring DPLL events">>

UnknownNotices ==
    {n \in 1..Len(errlog) : errlog[n] = "Unknown notification command"}

UnknownNtfs ==
    {n \in 1..Len(mon.ntfs) : mon.ntfs[n].cmd \notin DeviceNtf \cup PinNtf}

\* C17: in the monitor loop stdout holds, in delivery order, one rendering
\* per delivered notification of the six kinds: its own tag followed by the
\* device renderer for device kinds and by the pin renderer for pin kinds;
\* a message of any other kind writes one notice to stderr and nothing to
\* stdout, the callback returns OK and the loop goes on.
C17_NotificationKinds ==
    /\ [](Len(mon.ntfs) > 0 =>
            /\ out = Banner \o
                     Flatten([n \in 1..Len(mon.ntfs) |-> NtfExpected(mon.ntfs[n])])
            /\ Cardinality(UnknownNotices) = Cardinality(UnknownNtfs))
    /\ [][(pc = "mon_recv" /\ Len(mon'.ntfs) > Len(mon.ntfs)
            /\ mon'.ntfs[Len(mon'.ntfs)].cmd \notin DeviceNtf \cup PinNtf)
          => (pc' = "mon_loop" /\ mon'.ret = 0 /\ out' = out
              /\ errlog' = Append(errlog, "Unknown notification command"))]_vars

C17_Witness ==
    /\ pc = "mon_loop" /\ ~dpll.json_output
    /\ Len(mon.ntfs) = 3
    /\ mon.ntfs[1].cmd = "DPLL_CMD_PIN_CHANGE_NTF"
    /\ mon.ntfs[2].cmd = "DPLL_CMD_PIN_GET"
    /\ mon.ntfs[3].cmd = "DPLL_CMD_DEVICE_DELETE_NTF"
    /\ out = <<"Monitoring DPLL events", "[PIN_CHANGE] ", "pin id", "pin attrs",
               "[DEVICE_DELETE] ", "device id", "device attrs">>

\* C18: the device attribute phase-offset-monitor is rendered as enabled
\* for the value 1 and as disabled for the value 0, in text and in JSON.
C18_PhaseOffsetMonitorLabels ==
    (conv.kind = "phase-offset-monitor" /\ conv.done) =>
        /\ conv.value = 1 => conv.shown = "enabled"
        /\ conv.value = 0 => conv.shown = "disabled"

\* is bit number b (0 is the least significant) set in v
BitSet(v, b) == (v \div (2^b)) % 2 = 1

\* the known capability names with their bit numbers, in rendering order
KnownCaps == << [name |-> "state-can-change", bit |-> 2],
                [name |-> "priority-can-change", bit |-> 1],
                [name |-> "direction-can-change", bit |-> 0] >>

CapSet(k) == BitSet(conv.caps, k.bit)

RECURSIVE MapSeq(_)
MapSeq(s) == IF s = <<>> THEN <<>> ELSE <<Head(s).name>> \o MapSeq(Tail(s))

\* C19: the names rendered for a capabilities value are exactly the names
\* of the known bits set in it, each once, in the order state-can-change,
\* priority-can-change, direction-can-change; other bits add nothing; text
\* and JSON render the same list.
C19_CapabilityNames ==
    (conv.kind = "capabilities" /\ conv.done) =>
        conv.names = MapSeq(SelectSeq(KnownCaps, CapSet))

C19_Witness ==
    /\ conv.kind = "capabilities" /\ conv.done /\ conv.json
    /\ conv.caps = 29
    /\ conv.names = <<"state-can-change", "direction-can-change">>

ParentDeviceSubKeywords == {"direction", "prio", "state"}

PinSetTopKeywords ==
    {"id", "frequency", "phase-adjust", "esync-frequency", "parent-device",
     "parent-pin", "reference-sync"}

\* the sub-loop of a parent-device block stands on a token that is not one
\* of its sub-keywords
AtBlockEnd ==
    /\ pc = "pin_set_parent_device" /\ dpll_argc(dpll) > 0
    /\ dpll_argv(dpll) \notin ParentDeviceSubKeywords

\* the outer loop of `pin set` stands on a token right after a closed block
AfterBlock ==
    /\ pc = "pin_set" /\ dpll_argc(dpll) > 0
    /\ nlh.attrs # <<>> /\ IsNest(nlh.attrs[Len(nlh.attrs)]) /\ ~nlh.open

NoNestInNest(attrs) ==
    \A n \in 1..Len(attrs) :
        \A m \in 1..Len(attrs[n].sub) : ~IsNest(attrs[n].sub[m])

\* C20: on `pin set`, the first token of a nested block that is not one of
\* its sub-keywords ends the nest and is not consumed; the outer loop then
\* takes it as a top-level keyword: a known one puts its attributes after
\* the closed nest, which stays as it was, any other is the unknown-option
\* error; no nest ever holds a nest.
C20_LeavingNestedBlock ==
    /\ [][AtBlockEnd =>
            /\ dpll' = dpll /\ pc' = "pin_set" /\ err' = 0
            /\ ~nlh'.open /\ nlh'.attrs = nlh.attrs]_vars
    /\ [][AfterBlock =>
            IF dpll_argv(dpll) \in PinSetTopKeywords
            THEN /\ why' # UnknownOption
                 /\ Len(nlh'.attrs) >= Len(nlh.attrs)
                 /\ SubSeq(nlh'.attrs, 1, Len(nlh.attrs)) = nlh.attrs
                 /\ \A n \in (Len(nlh.attrs) + 1)..Len(nlh'.attrs) :
                       nlh'.attrs[n].type \notin SubKeywordTypes
            ELSE /\ err' = -EINVAL /\ why' = UnknownOption /\ pc' = "fini"
                 /\ nlh' = nlh /\ sent' = sent]_vars
    /\ [](NoNestInNest(nlh.attrs)
          /\ \A k \in 1..Len(sent) : NoNestInNest(sent[k].attrs))

C20_Witness ==
    /\ pc = "fini" /\ err = 0 /\ Len(sent) = 1
    /\ argv0 = <<"pin", "set", "id", "3", "parent-device", "0", "prio", "10",
                 "parent-pin", "1", "frequency", "10">>
    /\ Len(sent[1].attrs) = 4
    /\ sent[1].attrs[2].type = "DPLL_A_PIN_PARENT_DEVICE"
    /\ Len(sent[1].attrs[2].sub) = 2
    /\ sent[1].attrs[3].type = "DPLL_A_PIN_PARENT_PIN"
    /\ Len(sent[1].attrs[3].sub) = 1
    /\ sent[1].attrs[4] = Attr("DPLL_A_PIN_FREQUENCY", 8, 10, "")

TwoStates ==
    <<"pin", "set", "id", "1", "parent-pin", "1", "state", "connected",
      "state", "disconnected">>

LastAttr(h) == h.attrs[Len(h.attrs)]

\* a pass of the parent-device sub-loop stands on one of its sub-keywords
InParentDevice ==
    /\ pc = "pin_set_parent_device" /\ dpll_argc(dpll) > 0
    /\ dpll_argv(dpll) \in ParentDeviceSubKeywords

\* the outer loop stands on the opener of a parent-pin or reference-sync block
AtStateBlock ==
    /\ pc = "pin_set" /\ dpll_argc(dpll) > 0
    /\ dpll_argv(dpll) \in {"parent-pin", "reference-sync"}

Consumed(n) ==
    /\ dpll.argc >= n
    /\ dpll'.argc = dpll.argc - n
    /\ dpll'.argv = SubSeq(dpll.argv, n + 1, Len(dpll.argv))

NumericKeywords ==
    {"prio", "frequency", "phase-adjust", "esync-frequency",
     "phase-offset-avg-factor", "clock-id"}

StringKeywords == {"module-name", "board-label", "panel-label", "package-label"}

\* the attribute put last: the last one of the open or just closed nest, or
\* the last top-level one
Newest(h) ==
    IF IsNest(LastAttr(h)) THEN LastAttr(h).sub[Len(LastAttr(h).sub)]
    ELSE LastAttr(h)

\* a pass of an argument loop that stands on a keyword and handles it
KeywordPass ==
    /\ pc \in ArgLoopPcs /\ dpll_argc(dpll) > 0 /\ ~AtBlockEnd
    /\ err' = 0

HeadIsObject == Len(argv0) > 0 /\ argv0[1] \in Objects

HeadIsVerb == dpll.argc > 0 /\ dpll.argv[1] \in {"show", "set", "id-get"}

\* C22: a handled keyword consumes exactly the keyword and its value (a
\* parent-pin or reference-sync opener followed by state handles two
\* keywords in one pass and consumes four tokens), and the value parsed is
\* the token after the keyword; dpll_cmd, cmd_device and cmd_pin consume the
\* head token exactly when it is one of their objects or verbs and leave the
\* cursor alone otherwise (help and no token included); the cursor is
\* always a suffix of the argument vector.
C22_KeywordConsumedOnce ==
    /\ [][KeywordPass =>
            /\ IF AtStateBlock /\ dpll.argc >= 3 /\ dpll.argv[3] = "state"
               THEN Consumed(4) ELSE Consumed(2)
            /\ dpll.argv[1] \in NumericKeywords
                  => (dpll.argv[2] \in NumTokens
                      /\ Newest(nlh').val = NumValue(dpll.argv[2]))
            /\ dpll.argv[1] \in StringKeywords
                  => Newest(nlh').str = dpll.argv[2]
            /\ dpll.argv[1] = "id" => (has_id' /\ id' = NumValue(dpll.argv[2]))
            /\ dpll.argv[1] \in Openers
                  => LastAttr(nlh').sub[1].val = NumValue(dpll.argv[2])]_vars
    /\ [][pc = "cmd" =>
            /\ dpll'.argc = Len(dpll'.argv)
            /\ dpll'.argv = IF HeadIsObject THEN Tail(argv0) ELSE argv0]_vars
    /\ [][(pc = "cmd_device" \/ pc = "cmd_pin") =>
            /\ HeadIsVerb => Consumed(1)
            /\ ~HeadIsVerb => dpll' = dpll]_vars
    /\ [](/\ dpll.argc = Len(dpll.argv)
          /\ dpll.argv = SubSeq(argv0, Len(argv0) - dpll.argc + 1, Len(argv0)))

C22_Witness ==
    /\ pc = "pin_set" /\ err = 0
    /\ argv0 = <<"pin", "set", "id", "5", "frequency", "10000000">>
    /\ dpll.argc = 2 /\ dpll.argv = <<"frequency", "10000000">>
    /\ has_id /\ id = 5

\* C23: a request whose attributes do not fit the socket buffer is never
\* sent, and the verb that built it returns an error.
C23_EncoderOverflow ==
    /\ \A k \in 1..Len(sent) : nlmsg_len(sent[k]) <= MNL_SOCKET_BUFFER_SIZE
    /\ (pc = "fini" /\ nlmsg_len(nlh) > MNL_SOCKET_BUFFER_SIZE) => err # 0

\* C24: when the allocation of one of the five sequences fails while a pin
\* message is handled, nothing of the message is rendered, no scope and no
\* tag is opened for it, the failure is reported, the handler returns
\* MNL_CB_ERROR, the operation that received the message returns an error
\* (the monitor loop ends) and the exit status is 1.
C24_AllocationFailure ==
    mres.failed =>
        /\ mpc \in {"cleanup", "done", "returned"}
        /\ ~mres.rendered /\ mres.scope = 0 /\ ~mres.tag /\ mres.seen = <<>>
        /\ out = <<>>
        /\ mres.ret = "MNL_CB_ERROR"
        /\ InErrlog(alloc_failure_text(handler))
        /\ mpc = "returned" =>
              /\ pc \in {"mon_exit", "fini", "exit"}
              /\ InErrlog(handler_failure_text(handler))
              /\ IF handler = "cmd_monitor_cb"
                 THEN mon.ret < 0 /\ mon.exit_kind = "break"
                 ELSE err < 0
              /\ pc \in {"fini", "exit"} => err < 0
              /\ pc = "exit" => ret = 1

C24_Witness ==
    /\ mres.failed /\ pc = "exit" /\ ret = 1
    /\ handler = "cmd_pin_show_dump_cb"
    /\ mres.k = 3
    /\ msg = <<"DPLL_A_PIN_PARENT_DEVICE", "DPLL_A_PIN_REFERENCE_SYNC">>

\* context k got storage in pass 1 of this message
WasAllocated(k) ==
    /\ Occurrences(MultiAttr[k]) # {}
    /\ ~mres.failed \/ k < mres.k

Released(k) ==
    /\ ~ctx[k].alloc /\ ctx[k].entries = <<>> /\ ctx[k].count = 0
    /\ ctx[k].frees = IF WasAllocated(k) THEN 1 ELSE 0

\* C25: on every return path of a pin message handler, with or without a
\* failed allocation, each of the five sequences has been released exactly
\* once when the handler returns (storage freed, entries reset, count 0);
\* nothing is released before the rendering is complete, and nothing is read
\* or written after the release.
C25_MessageScopedStorage ==
    /\ [](/\ mpc \in {"done", "returned"} => \A k \in 1..5 : Released(k)
          /\ mpc \in {"count", "collect", "render", "cleanup"}
                => \A k \in 1..5 : ctx[k].frees = 0
          /\ mpc = "cleanup" => (mres.rendered \/ mres.failed)
          /\ \A k \in 1..5 : ctx[k].frees <= 1)
    /\ [][(mpc = "done" \/ mpc = "returned") => (ctx' = ctx /\ mres' = mres)]_vars
    /\ [][(mres.rendered' /\ ~mres.rendered)
             => \A k \in 1..5 : ctx[k].alloc = WasAllocated(k)
                                /\ ctx[k].frees = 0 /\ ctx' = ctx]_vars

C25_Witness ==
    /\ mpc = "returned" /\ mres.failed /\ mres.k = 2
    /\ handler = "cmd_monitor_cb"
    /\ msg = <<"DPLL_A_PIN_PARENT_PIN", "DPLL_A_PIN_PARENT_DEVICE",
               "DPLL_A_PIN_PARENT_DEVICE">>
    /\ ctx[1].frees = 1 /\ ctx[2].frees = 0

\* C26: no transport operation (request sent, group subscription, fd query,
\* receive run, poll loop) is made unless dpll_init opened the transport
\* earlier; in particular none for a command line whose first or second
\* token is help.
C26_NoUseWithoutOpenTransport ==
    /\ ~bad_use
    /\ (sent # <<>> \/ pc \in {"mon_loop", "mon_poll", "mon_recv", "mon_exit"})
          => init_calls > 0
    /\ (HelpFirst \/ HelpSecond) => (sent = <<>> /\ ~sig_installed)

\* C27: in JSON mode every scope that was opened is closed again, innermost
\* first, and the JSON context is deleted by the time the process exits,
\* whatever path led to the exit.
C27_JsonScopesBalanced ==
    (pc = "exit" /\ dpll.json_output) => (jstack = <<>> /\ jctx = "deleted")

IsVerbLine == Len(argv0) >= 2 /\ <<argv0[1], argv0[2]>> \in Verbs

\* C28: a verb sends at most one request, and only when its argument loop
\* consumed every token without an error; when the loop or the id check of
\* a set verb failed nothing is sent and nothing is printed on stdout.  For
\* `pin set id 5 frequency 10000000` the one request is a PIN_SET with pin
\* id 5 and the frequency 10000000 as a u64.
C28_AtMostOneRequest ==
    /\ [](Len(sent) <= 1)
    /\ [][sent' # sent =>
            /\ sent = <<>> /\ Len(sent') = 1
            /\ dpll.argc = 0 /\ err = 0 /\ why = "" /\ errlog = <<>>
            /\ IsVerbLine]_vars
    /\ []((IsVerbLine /\ why # "") => (sent = <<>> /\ out = <<>>))
    /\ []((pc = "fini"
           /\ argv0 = <<"pin", "set", "id", "5", "frequency", "10000000">>) =>
             sent = <<[cmd |-> "DPLL_CMD_PIN_SET", dump |-> FALSE, open |-> FALSE,
                       attrs |-> <<Attr("DPLL_A_PIN_ID", 4, 5, ""),
                                   Attr("DPLL_A_PIN_FREQUENCY", 8, 10000000, "")>>]>>)

C28_Witness ==
    /\ pc = "exit" /\ ret = 0 /\ Len(sent) = 1 /\ out = <<>>
    /\ argv0 = <<"pin", "set", "id", "5", "frequency", "10000000">>

IsPinShow == Len(argv0) >= 2 /\ argv0[1] = "pin" /\ argv0[2] = "show"

KeyGiven(k) == \E i \in 3..Len(argv0) : argv0[i] = k

\* the value given with the last keyword k
LastValueOf(k) ==
    LET i == CHOOSE i \in 3..Len(argv0) :
                 argv0[i] = k /\ \A j \in (i + 1)..Len(argv0) : argv0[j] # k
    IN NumValue(argv0[i + 1])

\* C29: `pin show` that parsed its arguments sends one PIN_GET: with `id P`,
\* whether or not `device D` is given too and in either order, a non-dump
\* request whose only attribute is pin id P; with `device D` alone a dump
\* request whose only attribute is device id D; with neither a dump request
\* without attributes.
C29_PinShowBothKeys ==
    (IsPinShow /\ pc = "fini" /\ why = "") =>
        /\ Len(sent) = 1
        /\ sent[1].cmd = "DPLL_CMD_PIN_GET"
        /\ sent[1].dump = ~KeyGiven("id")
        /\ sent[1].attrs =
             IF KeyGiven("id")
             THEN <<Attr("DPLL_A_PIN_ID", 4, LastValueOf("id"), "")>>
             ELSE IF KeyGiven("device")
             THEN <<Attr("DPLL_A_ID", 4, LastValueOf("device"), "")>>
             ELSE <<>>

C29_Witness ==
    /\ pc = "fini" /\ why = ""
    /\ argv0 = <<"pin", "show", "device", "1", "id", "0">>
    /\ sent = <<[cmd |-> "DPLL_CMD_PIN_GET", dump |-> FALSE, open |-> FALSE,
                 attrs |-> <<Attr("DPLL_A_PIN_ID", 4, 0, "")>>]>>

\* sign, whole part and thousandths of the decimal number t / 1000
ExactDecimal(t) ==
    [minus |-> t < 0,
     whole |-> IF t < 0 THEN 0 - c_div(t, 1000) ELSE t \div 1000,
     frac |-> IF t < 0 THEN 0 - c_rem(t, 1000) ELSE t % 1000]

\* C30: the text `D.mmm C` printed for an s32 temperature t in
\* milli-degrees, read as a signed decimal number, is t / 1000, for every t,
\* the negative ones above -1000 and the most negative s32 included.
C30_TemperatureTextExact ==
    (conv.kind = "temperature" /\ conv.done /\ ~conv.json) =>
        conv.text = ExactDecimal(conv.temp)

====
